---- MODULE Spec2Model ----
(***************************************************************************)
(* Backspace coding agent: the LangGraph workflow engine (BaseAgent /      *)
(* CodingAgent), the Docker sandbox registry (SandboxService) and the two  *)
(* drivers of a run (the CLI and the HTTP background task).                *)
(***************************************************************************)
EXTENDS Integers, Sequences, FiniteSets, TLC

VARIABLES
    driver,             \* who drives this run: "api" (a direct caller of run), "cli", "http"
    cid,                \* the correlation id handed to the driver
    pc,                 \* position of the driver / the graph node about to execute
    state,              \* AgentState threaded through the graph
    iteration,          \* implement_changes: local loop counter
    changes_made,       \* implement_changes: local list of recorded writes
    read_paths,         \* implement_changes: paths of read_file calls in `messages`
    result,             \* what run() handed back to its caller
    trace,              \* executed graph nodes with their outcome (history)
    docker,             \* SandboxService.client / docker_available
    active_containers,  \* SandboxService.active_containers
    containers,         \* containers known to the Docker backend
    temp_dirs,          \* temporary directories on the host
    next_id,            \* source of fresh container / directory names
    cleanup_log,        \* the calls of cleanup_sandbox: entry found? exception raised?
    active_connections, \* StreamingService.active_connections: id -> queued items
    consumer,           \* event_generator: "absent", "running", "ended", "closed"
    accepted,           \* items put on the request's queue, in order (history)
    emitted,            \* frames the event_generator yielded, in order (history)
    close_calls,        \* invocations of close_stream for the request
    missing_sends,      \* send_event calls that found no channel
    exc,                \* the exception the background pipeline is handling
    tool_call,          \* implement_changes of two concurrent runs: the tool call in hand
    sandbox_op,         \* the operation SandboxService executed last, and for whom
    exec_call,          \* the execute_command call under way
    exec_result,        \* how the last execute_command call ended
    now,                \* time.time() of the rate limiter
    requests,           \* check_rate_limit.requests: client -> times of counted requests
    admitted_at,        \* client -> time -> requests admitted at that time (history)
    rate_decision,      \* the last call of check_rate_limit: client and answer
    branch_response,    \* implement_changes: the text the capability gave for the branch
    branch_name,        \* implement_changes: the branch name made of it
    response,           \* implement_changes: tool_calls of the capability's last response
    expected_changes,   \* the writes of the loop as the specification classifies them
    repo,               \* push_changes: the branch in the sandbox's clone and on the remote
    push_result,        \* how the last push_changes call ended
    producer,           \* send_event / close_stream: the call under way in the producer's thread
    producer_log,       \* the finished calls of the producer, with how each ended (history)
    sandbox_call,       \* the last execute_command / read_file / write_file call and how it ended
    cleaned             \* ids whose sandbox was cleaned up and not created again (history)

vars == <<driver, cid, pc, state, iteration, changes_made, read_paths,
          result, trace, docker, active_containers, containers, temp_dirs, next_id,
          cleanup_log, active_connections, consumer, accepted, emitted, close_calls,
          missing_sends, exc, tool_call, sandbox_op, exec_call, exec_result,
          now, requests, admitted_at, rate_decision, branch_response, branch_name,
          response, expected_changes,
          repo, push_result,
          producer, producer_log,
          sandbox_call, cleaned>>

wfVars == <<state, iteration, changes_made, read_paths, result, trace>>
sbVars == <<docker, active_containers, containers, temp_dirs, next_id, cleanup_log>>
stVars == <<active_connections, consumer, accepted, emitted, close_calls, missing_sends, exc>>
tlVars == <<tool_call, sandbox_op>>
exVars == <<exec_call, exec_result>>
rlVars == <<now, requests, admitted_at, rate_decision>>
brVars == <<branch_response, branch_name>>
lpVars == <<response, expected_changes>>
psVars == <<repo, push_result>>
pdVars == <<producer, producer_log>>
lcVars == <<sandbox_call, cleaned>>

----------------------------------------------------------------------------
(* Bounds of the model *)

MaxToolCalls == 1       \* tool calls in one capability response
MaxChanges == 1         \* recorded writes in one execution of implement_changes
MaxCleanups == 2        \* calls of cleanup by a direct caller of the agent
MaxKeepalives == 1      \* keepalive frames of one stream
MaxElapsed == 3         \* time followed while one command runs
MaxTime == 4            \* last instant of the rate limiter's clock
rate_limit_requests == 2 \* settings.rate_limit_requests of the checked configuration
rate_limit_window == 2  \* settings.rate_limit_window of the checked configuration
MaxLoopChanges == 2     \* recorded writes when the loop is followed on its own
MaxTextLen == 2         \* characters the capability writes after the prefix it chose
LongTextLen == 100      \* length of the one long answer of the capability
MaxCommits == 2         \* commits made on the branch that is pushed
MaxProducerCalls == 3   \* calls of send_event and close_stream by one producer
MaxSandboxes == 2       \* calls of create_sandbox when the service is followed on its own
MaxSandboxCalls == 1    \* operations called when the service is followed on its own

(* Program constants *)

max_iterations == 10
MaxRetryCount == 3

CorrelationIds == {"c1"}
Paths == {"App.jsx"}
None == "None"

Steps == <<"analyze_repository", "create_plan", "implement_changes",
           "commit_changes", "push_changes", "create_pull_request">>
StepNames == {Steps[i] : i \in 1..Len(Steps)}
END == "END"

----------------------------------------------------------------------------
(* AgentState and the engine's helpers *)

InitialState(c) ==
    [correlation_id |-> c,
     repo_path |-> None,
     plan |-> None,
     current_step |-> None,
     steps_completed |-> <<>>,
     changes_made |-> <<>>,
     branch_name |-> None,
     commit_hash |-> None,
     push_success |-> None,
     pull_request_url |-> None,
     pull_request_created |-> None,
     pull_request_error |-> None,
     errors |-> <<>>,
     retry_count |-> 0]

should_continue(st) == IF st.errors # <<>> THEN "error" ELSE "continue"

\* a retry test that is off by one
should_retry_while_at_most_three(st) ==
    IF st.retry_count <= MaxRetryCount THEN "retry" ELSE "end"

should_retry(st) == IF st.retry_count < MaxRetryCount THEN "retry" ELSE "end"

handle_node_error(node_name, st) ==
    [st EXCEPT !.errors = Append(@, [node |-> node_name,
                                     correlation_id |-> st.correlation_id])]

\* a graph whose commit_changes edge leads past push_changes
ContinueEdge_skips_push(node) ==
    CASE node = "analyze_repository" -> "create_plan"
      [] node = "create_plan" -> "implement_changes"
      [] node = "implement_changes" -> "commit_changes"
      [] node = "commit_changes" -> "create_pull_request"
      [] node = "push_changes" -> "create_pull_request"
      [] node = "create_pull_request" -> END

ContinueEdge(node) ==
    CASE node = "analyze_repository" -> "create_plan"
      [] node = "create_plan" -> "implement_changes"
      [] node = "implement_changes" -> "commit_changes"
      [] node = "commit_changes" -> "push_changes"
      [] node = "push_changes" -> "create_pull_request"
      [] node = "create_pull_request" -> END

\* a graph whose handle_error edges both lead to END
RetryEdge_never_restarts(decision) == END

RetryEdge(decision) == IF decision = "retry" THEN "analyze_repository" ELSE END

AfterStep(node, st) ==
    IF should_continue(st) = "error" THEN "handle_error" ELSE ContinueEdge(node)

AfterHandleError(st) == RetryEdge(should_retry(st))

Completed(st, node) == [st EXCEPT !.steps_completed = Append(@, node)]

Log(node, outcome) == Append(trace, [node |-> node, outcome |-> outcome])

----------------------------------------------------------------------------
(* SandboxService *)

DockerStates ==
    {[client |-> FALSE, docker_available |-> FALSE],
     [client |-> TRUE, docker_available |-> TRUE]}

NoContainers == [c \in {} |-> None]

Without(f, k) == [x \in DOMAIN f \ {k} |-> f[x]]

is_sandbox_active(c) == c \in DOMAIN active_containers

\* create_sandbox: mkdtemp, containers.run, then the registration.  With no
\* client, or when the backend refuses to run the container, the directory is
\* already made and SandboxError is raised.
CreateSandboxOutcomes == IF docker.client THEN {"ok", "run_fails"} ELSE {"run_fails"}

\* a create_sandbox whose except clause logs the failure and returns
create_sandbox_returns_on_failure(out) == FALSE

\* create_sandbox raises SandboxError from its except clause
create_sandbox_raises(out) == out # "ok"

create_sandbox(c, out) ==
    /\ next_id' = next_id + 1
    /\ temp_dirs' = temp_dirs \cup {next_id}
    /\ docker' = docker
    /\ cleanup_log' = cleanup_log
    /\ IF out = "ok"
       THEN /\ containers' = (next_id :> [status |-> "running", correlation_id |-> c])
                                  @@ containers
            /\ active_containers' =
                   (c :> [container |-> next_id, temp_dir |-> next_id])
                       @@ Without(active_containers, c)
       ELSE UNCHANGED <<containers, active_containers>>

\* cleanup_sandbox: stop, remove, rmtree, del; any exception is logged and
\* swallowed, leaving the later statements undone.
CleanupOutcomes == {"ok", "stop_fails", "remove_fails"}

\* a cleanup_sandbox without its try/except: a failing stop or remove reaches
\* the caller
cleanup_sandbox_propagates(c, out) ==
    /\ UNCHANGED <<docker, next_id>>
    /\ cleanup_log' = Append(cleanup_log, [found |-> c \in DOMAIN active_containers,
                                           raised |-> c \in DOMAIN active_containers
                                                      /\ out # "ok"])
    /\ IF c \in DOMAIN active_containers /\ out = "ok"
       THEN LET info == active_containers[c] IN
            /\ containers' = Without(containers, info.container)
            /\ temp_dirs' = temp_dirs \ {info.temp_dir}
            /\ active_containers' = Without(active_containers, c)
       ELSE UNCHANGED <<active_containers, containers, temp_dirs>>

cleanup_sandbox(c, out) ==
    /\ UNCHANGED <<docker, next_id>>
    /\ cleanup_log' = Append(cleanup_log, [found |-> c \in DOMAIN active_containers,
                                           raised |-> FALSE])
    /\ IF c \notin DOMAIN active_containers
       THEN UNCHANGED <<active_containers, containers, temp_dirs>>
       ELSE LET info == active_containers[c] IN
            CASE out = "ok" ->
                   /\ containers' = Without(containers, info.container)
                   /\ temp_dirs' = temp_dirs \ {info.temp_dir}
                   /\ active_containers' = Without(active_containers, c)
              [] out = "stop_fails" ->
                   UNCHANGED <<active_containers, containers, temp_dirs>>
              [] out = "remove_fails" ->
                   /\ containers' = [containers EXCEPT ![info.container].status = "stopped"]
                   /\ UNCHANGED <<active_containers, temp_dirs>>

\* CodingAgent.cleanup(correlation_id=None)
cleanup(c, out) ==
    IF c # None /\ c # ""
    THEN cleanup_sandbox(c, out)
    ELSE UNCHANGED sbVars

----------------------------------------------------------------------------
(* The nodes of CodingAgent, as functions of the state and of what the
   capabilities did *)

Entered(st, node) == [st EXCEPT !.current_step = node]

\* create_plan: the capability answers with a plan that parses to a dict or,
\* from a fenced json block, to a list; or it raises.
create_plan_node(st, out) ==
    IF out = "raise"
    THEN handle_node_error("create_plan", Entered(st, "create_plan"))
    ELSE Completed([Entered(st, "create_plan") EXCEPT !.plan = out], "create_plan")

\* GitService.commit_changes as git answers: `git add .` fails, nothing is
\* staged, or something is staged and `git commit` fails, or works and
\* `git rev-parse HEAD` then fails or gives the hash. `committed` tells
\* whether `git commit` made a commit.
GitOutcomes == {"add_fails", "nothing_staged", "commit_fails", "hash_fails", "staged"}

\* a commit_changes without the check of `git diff --cached --quiet`: git
\* commit exits non-zero when nothing is staged
commit_changes_without_check(git) ==
    CASE git = "staged" -> [result |-> "hash", committed |-> TRUE]
      [] git = "hash_fails" -> [result |-> "raise", committed |-> TRUE]
      [] OTHER -> [result |-> "raise", committed |-> FALSE]

commit_changes(git) ==
    CASE git = "add_fails" -> [result |-> "raise", committed |-> FALSE]
      [] git = "nothing_staged" -> [result |-> "no_changes", committed |-> FALSE]
      [] git = "commit_fails" -> [result |-> "raise", committed |-> FALSE]
      [] git = "hash_fails" -> [result |-> "raise", committed |-> TRUE]
      [] git = "staged" -> [result |-> "hash", committed |-> TRUE]

commit_changes_node(st, out) ==
    IF out = "raise"
    THEN handle_node_error("commit_changes", Entered(st, "commit_changes"))
    ELSE Completed([Entered(st, "commit_changes") EXCEPT !.commit_hash = out],
                   "commit_changes")

\* a push_changes that records no error when the push raises
push_changes_node_swallows(st, out) ==
    IF out = "raise"
    THEN [Entered(st, "push_changes") EXCEPT !.push_success = "False"]
    ELSE Completed([Entered(st, "push_changes") EXCEPT !.push_success = "True"],
                   "push_changes")

push_changes_node(st, out) ==
    IF out = "raise"
    THEN handle_node_error("push_changes", Entered(st, "push_changes"))
    ELSE Completed([Entered(st, "push_changes") EXCEPT !.push_success = "True"],
                   "push_changes")

\* create_pull_request: building the body reads plan.get(...), which raises
\* AttributeError for a plan that is no dict (outer except); the GitService
\* call is guarded by the inner try.  str(e) is what the state records.
PullRequestOutcomes ==
    {"ok", "github_unavailable", "no_client", "api_error", "request_failed"}

str_of_error(kind) ==
    CASE kind = "github_unavailable" -> "PyGithub is not available - cannot create pull request"
      [] kind = "no_client" -> "Failed to create pull request: GitHub client not initialized"
      [] kind = "api_error" -> "GitHub API error: message"
      [] kind = "request_failed" -> "Failed to create pull request: cause"
      [] kind = "attribute_error" -> "'list' object has no attribute 'get'"

\* a create_pull_request that reports a failure the way the halting steps do
create_pull_request_node_records_error(st, out) ==
    IF st.plan # "dict" \/ out # "ok"
    THEN handle_node_error("create_pull_request", Entered(st, "create_pull_request"))
    ELSE Completed([Entered(st, "create_pull_request")
                       EXCEPT !.pull_request_url = "url", !.pull_request_created = "True"],
                   "create_pull_request")

create_pull_request_node(st, out) ==
    LET st1 == Entered(st, "create_pull_request") IN
    IF st.plan # "dict"
    THEN [st1 EXCEPT !.pull_request_created = "False",
                     !.pull_request_error = str_of_error("attribute_error")]
    ELSE IF out = "ok"
    THEN Completed([st1 EXCEPT !.pull_request_url = "url", !.pull_request_created = "True"],
                   "create_pull_request")
    ELSE Completed([st1 EXCEPT !.pull_request_created = "False",
                               !.pull_request_error = str_of_error(out)],
                   "create_pull_request")

\* a handle_error that starts the retry with an empty list of completed steps
handle_error_node_resets_steps(st) ==
    LET inc == [Entered(st, "handle_error") EXCEPT !.retry_count = @ + 1] IN
    IF st.errors # <<>> /\ inc.retry_count < MaxRetryCount
    THEN [inc EXCEPT !.errors = <<>>, !.steps_completed = <<"handle_error">>]
    ELSE Completed(IF st.errors # <<>> THEN inc ELSE Entered(st, "handle_error"),
                   "handle_error")

\* a handle_error that never clears the error list
handle_error_node_keeps_errors(st) ==
    Completed([Entered(st, "handle_error") EXCEPT !.retry_count = @ + 1], "handle_error")

handle_error_node(st) ==
    LET st1 == Entered(st, "handle_error")
        st2 == IF st1.errors # <<>>
               THEN LET inc == [st1 EXCEPT !.retry_count = @ + 1] IN
                    IF inc.retry_count < MaxRetryCount
                    THEN [inc EXCEPT !.errors = <<>>]
                    ELSE inc
               ELSE st1
    IN Completed(st2, "handle_error")

\* implement_changes, the tool-use loop

ToolCalls ==
    [name : {"read_file", "write_file"}, file_path : Paths, ok : BOOLEAN]
    \cup [name : {"execute_command", "unknown_tool"}, file_path : {""}, ok : BOOLEAN]

RECURSIVE SeqsUpTo(_, _)
SeqsUpTo(S, n) ==
    IF n = 0 THEN {<<>>}
    ELSE LET shorter == SeqsUpTo(S, n - 1) IN
         shorter \cup {Append(q, x) : q \in shorter, x \in S}

Responses == SeqsUpTo(ToolCalls, MaxToolCalls)

ReadsOf(calls) ==
    {calls[i].file_path : i \in {j \in 1..Len(calls) : calls[j].name = "read_file"}}

file_existed(file_path, calls, reads) == file_path \in reads \cup ReadsOf(calls)

Change(call, calls, reads) ==
    [action |-> IF file_existed(call.file_path, calls, reads) THEN "modified" ELSE "created",
     file_path |-> call.file_path]

\* a loop that records a write_file call before it invokes the tool
RECURSIVE TrackChanges_before_invoke(_, _, _, _)
TrackChanges_before_invoke(changes, calls, i, reads) ==
    IF i > Len(calls) THEN changes
    ELSE LET call == calls[i] IN
         TrackChanges_before_invoke(IF call.name = "write_file"
                                    THEN Append(changes, Change(call, calls, reads))
                                    ELSE changes,
                                    calls, i + 1, reads)

RECURSIVE TrackChanges(_, _, _, _)
TrackChanges(changes, calls, i, reads) ==
    IF i > Len(calls) THEN changes
    ELSE LET call == calls[i] IN
         TrackChanges(IF call.name = "write_file" /\ call.ok
                      THEN Append(changes, Change(call, calls, reads))
                      ELSE changes,
                      calls, i + 1, reads)

implement_changes_done(st, changes) ==
    Completed([st EXCEPT !.changes_made = changes], "implement_changes")

NoResult == [returned |-> FALSE, raised |-> FALSE, keys |-> {}, success |-> FALSE, errors |-> <<>>]

\* BaseAgent.run: the two return statements
run_result(final_state) ==
    [returned |-> TRUE,
     raised |-> FALSE,
     keys |-> {"success", "correlation_id", "final_state", "errors"},
     success |-> Len(final_state.errors) = 0,
     errors |-> final_state.errors]

\* a run without its except clause: the exception reaches the caller
run_except_reraises(c) == [NoResult EXCEPT !.raised = TRUE]

run_except_result(c) ==
    [returned |-> TRUE,
     raised |-> FALSE,
     keys |-> {"success", "correlation_id", "error"},
     success |-> FALSE,
     errors |-> <<>>]

----------------------------------------------------------------------------
(* StreamingService *)

Event(type, error, error_type) == [type |-> type, error |-> error, error_type |-> error_type]

AiMessage == Event("AI Message", None, None)
Progress == Event("Progress", None, None)
ToolBash == Event("Tool: Bash", None, None)
ToolGit == Event("Tool: Git", None, None)
Keepalive == Event("keepalive", None, None)
Success == Event("Success", None, None)

\* close_stream puts None on the queue
Sentinel == Event(None, None, None)

NoException == [type |-> None, message |-> None]

\* a send_event that opens a queue for an id it does not know
send_event_reopens(conns, c, event) ==
    IF c \in DOMAIN conns
    THEN [conns EXCEPT ![c] = Append(@, event)]
    ELSE (c :> <<event>>) @@ conns

send_event(conns, c, event) ==
    IF c \in DOMAIN conns
    THEN [conns EXCEPT ![c] = Append(@, event)]
    ELSE conns

close_stream(conns, c) ==
    IF c \in DOMAIN conns
    THEN [conns EXCEPT ![c] = Append(@, Sentinel)]
    ELSE conns

RECURSIVE send_events(_, _, _)
send_events(conns, c, events) ==
    IF events = <<>> THEN conns
    ELSE send_events(send_event(conns, c, Head(events)), c, Tail(events))

\* send_event and close_stream statement by statement, for a producer that
\* runs beside the consumer: first the test `correlation_id in
\* self.active_connections`, later the put.  The item in hand is an event or,
\* for close_stream, the sentinel.
NoProducer == [pos |-> "idle", item |-> Sentinel]

ProducerItems == {AiMessage, Progress, Sentinel}

\* a put outside any try statement: the exception leaves send_event
put_unguarded(conns, c, closed, item) ==
    CASE c \notin DOMAIN conns ->
           [conns |-> conns, outcome |-> "KeyError", raised |-> TRUE]
      [] c \in DOMAIN conns /\ closed ->
           [conns |-> conns, outcome |-> "RuntimeError", raised |-> TRUE]
      [] OTHER ->
           [conns |-> [conns EXCEPT ![c] = Append(@, item)],
            outcome |-> "enqueued", raised |-> FALSE]

\* self.active_connections[correlation_id].sync_q.put(item) inside try /
\* except Exception: the lookup fails with KeyError once the entry is deleted,
\* the put with RuntimeError once the queue is closed; both are logged
put(conns, c, closed, item) ==
    CASE c \notin DOMAIN conns ->
           [conns |-> conns, outcome |-> "KeyError", raised |-> FALSE]
      [] c \in DOMAIN conns /\ closed ->
           [conns |-> conns, outcome |-> "RuntimeError", raised |-> FALSE]
      [] OTHER ->
           [conns |-> [conns EXCEPT ![c] = Append(@, item)],
            outcome |-> "enqueued", raised |-> FALSE]

\* the background task sends `events`, then calls close_stream if `close`
Produce(events, close) ==
    LET sent == send_events(active_connections, cid, events) IN
    /\ active_connections' = IF close THEN close_stream(sent, cid) ELSE sent
    /\ accepted' = IF cid \in DOMAIN active_connections
                   THEN accepted \o events \o (IF close THEN <<Sentinel>> ELSE <<>>)
                   ELSE accepted
    /\ missing_sends' = IF cid \in DOMAIN active_connections
                        THEN missing_sends
                        ELSE missing_sends + Len(events)
    /\ close_calls' = close_calls + (IF close THEN 1 ELSE 0)
    /\ UNCHANGED <<consumer, emitted>>

----------------------------------------------------------------------------
(* Tool dispatch of the implementation loop: two runs of one agent, each in
   implement_changes, share the agent's tools and its SandboxService *)

Runs == {"A", "B"}
RunIds == [r \in Runs |-> IF r = "A" THEN "c1" ELSE "c2"]

\* A path is the sequence of its "/"-separated segments: "/workspace/repo" is
\* <<"", "workspace", "repo">>, "../secret" is <<"..", "secret">>.
RepoPath == <<"", "workspace", "repo">>
NoPath == <<>>
FilePaths == {<<"App.jsx">>, <<"..", "secret">>, <<"", "etc", "passwd">>}

\* the AgentState of a run that analyze_repository has completed
RunState(r) == [InitialState(RunIds[r]) EXCEPT !.repo_path = RepoPath]

\* tool_call['name'] and tool_call['args'] as the capability wrote them; None
\* and NoPath stand for a key the capability left out
ToolRequests ==
    [name : {"read_file", "write_file"},
     correlation_id : {None, "c1", "c2"},
     repo_path : {NoPath, <<"", "tmp">>},
     file_path : FilePaths]
    \cup [name : {"execute_command"},
          correlation_id : {None, "c1", "c2"},
          repo_path : {NoPath},
          file_path : {NoPath}]

NoCall == [name |-> None, correlation_id |-> None, repo_path |-> NoPath, file_path |-> NoPath]

NoOp == [run |-> None, request |-> NoCall, op |-> None, correlation_id |-> None,
         container |-> 0, file_path |-> NoPath]

\* a dispatch that trusts the capability: correlation_id is filled in only
\* where the capability left it out
tool_args_keeps_capability_id(request, st) ==
    [request EXCEPT
        !.correlation_id = IF @ = None THEN st.correlation_id ELSE @,
        !.repo_path = IF @ = NoPath /\ request.name \in {"read_file", "write_file"}
                      THEN st.repo_path ELSE @]

\* tool_args = tool_call['args'].copy() and the keys the loop sets in it
tool_args(request, st) ==
    [request EXCEPT
        !.correlation_id = st.correlation_id,
        !.repo_path = IF @ = NoPath /\ request.name \in {"read_file", "write_file"}
                      THEN st.repo_path ELSE @]

\* f"{repo_path}/{file_path}"
full_path(repo_path, file_path) == repo_path \o file_path

\* security.validate_file_path: TRUE when the path is accepted
validate_file_path(file_path) ==
    /\ file_path # <<>>
    /\ \A i \in 1..Len(file_path) : file_path[i] # ".."
    /\ file_path[1] # ""

\* the operation a tool hands to SandboxService: read_file and write_file go
\* through GitService, which joins repo_path and file_path
sandbox_request(args) ==
    [op |-> args.name,
     correlation_id |-> args.correlation_id,
     file_path |-> IF args.name = "execute_command" THEN NoPath
                   ELSE full_path(args.repo_path, args.file_path)]

\* One tool call of a response: the loop fixes the arguments and invokes the
\* tool, the tool reaches SandboxService, which looks the container up under
\* the correlation_id it was given. A write below a new directory is preceded
\* by a mkdir under the same correlation_id. An id that is not registered
\* raises, which the loop turns into an error tool result.
invoke_tool(r, request) ==
    LET args == tool_args(request, RunState(r))
        req == sandbox_request(args)
    IN IF req.correlation_id \in DOMAIN active_containers
       THEN sandbox_op' = [run |-> r,
                           request |-> request,
                           op |-> req.op,
                           correlation_id |-> req.correlation_id,
                           container |-> active_containers[req.correlation_id].container,
                           file_path |-> req.file_path]
       ELSE UNCHANGED sandbox_op

----------------------------------------------------------------------------
(* SandboxService.execute_command, one call at a time *)

\* settings.sandbox_timeout, with the time counted in units of 150 seconds
sandbox_timeout == 2

ExitCodes == {0, 1, 127}

\* what the command does in the container: it ends after `duration` with
\* `exit_code`, or it never ends; or container.exec_run raises
ExecBehaviours ==
    [finishes : BOOLEAN, duration : 0..sandbox_timeout, exit_code : ExitCodes,
     exception : BOOLEAN]

NoContainer == 0

NoExecCall ==
    [correlation_id |-> None, timeout |-> 0, container |-> NoContainer, elapsed |-> 0,
     behaviour |-> [finishes |-> TRUE, duration |-> 0, exit_code |-> 0,
                    exception |-> FALSE]]

NoExecResult ==
    [correlation_id |-> None, raised |-> None, exit_code |-> 0,
     container |-> NoContainer, elapsed |-> 0, behaviour |-> NoExecCall.behaviour]

\* timeout = timeout or settings.sandbox_timeout; 0 stands for no argument
effective_timeout(timeout) == IF timeout = 0 THEN sandbox_timeout ELSE timeout

docker_unavailable == ~docker.docker_available \/ ~docker.client

\* an execute_command that treats a non-zero exit code as a failure
exec_run_result_raises_on_failure(call) ==
    [correlation_id |-> call.correlation_id,
     raised |-> IF call.behaviour.exception \/ call.behaviour.exit_code # 0
                THEN "SandboxError" ELSE None,
     exit_code |-> call.behaviour.exit_code,
     container |-> call.container,
     elapsed |-> call.elapsed,
     behaviour |-> call.behaviour]

\* the end of container.exec_run: the tuple with its exit code, or the
\* SandboxError that wraps the exception of the backend
exec_run_result(call) ==
    [correlation_id |-> call.correlation_id,
     raised |-> IF call.behaviour.exception THEN "SandboxError" ELSE None,
     exit_code |-> call.behaviour.exit_code,
     container |-> call.container,
     elapsed |-> call.elapsed,
     behaviour |-> call.behaviour]

\* an execute_command without the lookup test `correlation_id not in
\* self.active_containers`
execute_command_rejected_without_lookup(c) == docker_unavailable

\* the head of execute_command: the two checks that raise before anything runs
execute_command_rejected(c) ==
    docker_unavailable \/ c \notin DOMAIN active_containers

\* The three operations of a sandbox, each as one call.  `backend` says how
\* the commands of the call end in the container; needs_mkdir says whether
\* write_file has a directory to make first.
SandboxOps == {"execute_command", "read_file", "write_file"}

BackendOutcomes == {"exit_0", "exit_1", "exception"}

NoSandboxCall ==
    [seq |-> 0, op |-> None, correlation_id |-> None, raised |-> None,
     container |-> NoContainer]

\* how a call ends: what it raised and the container a command was run in
CallEnds(raised, container) == [raised |-> raised, container |-> container]

\* execute_command: the two checks, self.active_containers[correlation_id],
\* container.exec_run
execute_command(c, backend) ==
    IF execute_command_rejected(c)
    THEN CallEnds("SandboxError", NoContainer)
    ELSE IF c \notin DOMAIN active_containers
    THEN CallEnds("KeyError", NoContainer)
    ELSE CallEnds(IF backend = "exception" THEN "SandboxError" ELSE None,
                  active_containers[c].container)

\* read_file: execute_command("cat ..."), a non-zero exit code raises
read_file(c, backend) ==
    LET cat == execute_command(c, backend) IN
    IF cat.raised = None /\ backend = "exit_1"
    THEN CallEnds("SandboxError", cat.container)
    ELSE cat

\* write_file: mkdir through execute_command where a directory is needed,
\* then its own lookup test and container.exec_run
write_file(c, needs_mkdir, backend) ==
    LET mkdir == execute_command(c, backend) IN
    IF needs_mkdir /\ mkdir.raised # None
    THEN mkdir
    ELSE IF needs_mkdir /\ backend = "exit_1"
    THEN CallEnds("SandboxError", mkdir.container)
    ELSE IF c \notin DOMAIN active_containers
    THEN CallEnds("SandboxError", NoContainer)
    ELSE CallEnds(IF backend = "exit_0" THEN None ELSE "SandboxError",
                  active_containers[c].container)

sandbox_operation(op, c, needs_mkdir, backend) ==
    CASE op = "execute_command" -> execute_command(c, backend)
      [] op = "read_file" -> read_file(c, backend)
      [] op = "write_file" -> write_file(c, needs_mkdir, backend)

----------------------------------------------------------------------------
(* security.check_rate_limit *)

Clients == {"ip1", "ip2"}

NoRequests == [c \in Clients |-> <<>>]
NoDecision == [client |-> None, admitted |-> FALSE]

\* the list comprehension that drops the requests older than the window
recent(times, t, window) == SelectSeq(times, LAMBDA req_time : t - req_time < window)

\* a limiter that counts the request before it looks at the limit
check_rate_limit_counts_rejected(reqs, client_id, t, limit, window) ==
    LET client_requests == Append(recent(reqs[client_id], t, window), t) IN
    [admitted |-> Len(client_requests) <= limit,
     requests |-> [reqs EXCEPT ![client_id] = client_requests]]

\* check_rate_limit: the answer and the dictionary it leaves behind
check_rate_limit(reqs, client_id, t, limit, window) ==
    LET client_requests == recent(reqs[client_id], t, window) IN
    IF Len(client_requests) >= limit
    THEN [admitted |-> FALSE,
          requests |-> [reqs EXCEPT ![client_id] = client_requests]]
    ELSE [admitted |-> TRUE,
          requests |-> [reqs EXCEPT ![client_id] = Append(client_requests, t)]]

----------------------------------------------------------------------------
(* implement_changes: the name of the branch. A text is the sequence of its
   characters. *)

Letters == {"a", "b", "d", "e", "f", "i", "m", "o", "p", "r", "t", "u", "v", "x"}
Digits == {"1", "7"}

feature == <<"f", "e", "a", "t", "u", "r", "e", "/">>
BranchPrefixes ==
    {feature,
     <<"f", "i", "x", "/">>,
     <<"a", "d", "d", "/">>,
     <<"u", "p", "d", "a", "t", "e", "/">>,
     <<"i", "m", "p", "r", "o", "v", "e", "/">>}

RECURSIVE Repeat(_, _)
Repeat(c, n) == IF n = 0 THEN <<>> ELSE <<c>> \o Repeat(c, n - 1)

\* what the capability may answer: a start it chose, then any short text; or
\* one long word
TextChars == {"a", "F", "1", "-", "/", " ", "!"}
TextStarts == BranchPrefixes \cup {<<>>, <<"F", "i", "x", "/">>, <<"b", "u", "g", "/">>}
BranchResponses ==
    {start \o rest : start \in TextStarts, rest \in SeqsUpTo(TextChars, MaxTextLen)}
    \cup {Repeat("a", LongTextLen)}

\* int(time.time()) in decimal
Timestamps == {<<"1", "7">>}

\* str.strip
RECURSIVE lstrip(_)
lstrip(text) == IF text # <<>> /\ Head(text) = " " THEN lstrip(Tail(text)) ELSE text
RECURSIVE rstrip(_)
rstrip(text) ==
    IF text # <<>> /\ text[Len(text)] = " "
    THEN rstrip(SubSeq(text, 1, Len(text) - 1)) ELSE text
strip(text) == lstrip(rstrip(text))

\* re.sub(r'[^a-zA-Z0-9\-/]', '', text)
Upper == {"F"}
Kept == Letters \cup {"g"} \cup Upper \cup Digits \cup {"-", "/"}
sub_special(text) == SelectSeq(text, LAMBDA c : c \in Kept)

\* str.lower
lower(text) == [i \in 1..Len(text) |-> IF text[i] = "F" THEN "f" ELSE text[i]]

startswith(text, prefix) ==
    Len(text) >= Len(prefix) /\ SubSeq(text, 1, Len(prefix)) = prefix

\* the branch name of implement_changes
make_branch_name(text, timestamp) ==
    LET base == lower(sub_special(strip(text)))
        base_branch_name == IF \E prefix \in BranchPrefixes : startswith(base, prefix)
                            THEN base
                            ELSE feature \o base
    IN base_branch_name \o <<"-">> \o timestamp

NoText == <<"?">>

----------------------------------------------------------------------------
(* implement_changes: the while loop, round by round *)

\* a loop that does not leave at a response without tool calls
loop_continues_until_cap(calls, rounds) == rounds < max_iterations

\* after a round: the else branch breaks, the while condition ends the loop
loop_continues(calls, rounds) == calls # <<>> /\ rounds < max_iterations

PathsOf(changes) == {changes[i].file_path : i \in 1..Len(changes)}

\* the classification the specification asks for: a modification when the
\* path was read, or written before in this run
ExpectedChange(call, calls, reads, changes) ==
    [action |-> IF file_existed(call.file_path, calls, reads)
                   \/ call.file_path \in PathsOf(changes)
                THEN "modified" ELSE "created",
     file_path |-> call.file_path]

RECURSIVE ExpectChanges(_, _, _, _)
ExpectChanges(changes, calls, i, reads) ==
    IF i > Len(calls) THEN changes
    ELSE LET call == calls[i] IN
         ExpectChanges(IF call.name = "write_file" /\ call.ok
                       THEN Append(changes, ExpectedChange(call, calls, reads, changes))
                       ELSE changes,
                       calls, i + 1, reads)

----------------------------------------------------------------------------
(* GitService.push_changes.  The branch is followed by the number of its
   commits in the sandbox's clone (local) and on the remote (remote, Absent
   while the remote has no such branch); dirty says whether the working tree
   has uncommitted changes. *)

Absent == 0 - 1

NoRepo == [local |-> 0, remote |-> Absent, dirty |-> FALSE]

\* how the commands of one call end: the two credential commands (not issued
\* without a token), git status --porcelain, git ls-remote --heads, git push
PushBehaviours ==
    [credentials : {"no_token", "stored", "raises"},
     status : {"ok", "nonzero", "raises"},
     ls_remote : {"ok", "nonzero", "raises"},
     push : {"ok", "nonzero", "raises"}]

NoPush == [behaviour |-> [credentials |-> "no_token", status |-> "ok",
                          ls_remote |-> "ok", push |-> "ok"],
           called |-> FALSE, returned |-> FALSE, raised |-> "none",
           push_run |-> FALSE]

\* exit_code == 0 and not stdout.strip() of git status --porcelain
status_is_clean(rp, b) == b.status = "ok" /\ ~rp.dirty

\* exit_code == 0 and stdout.strip() of git ls-remote --heads origin <branch>
branch_on_remote(rp, b) == b.ls_remote = "ok" /\ rp.remote # Absent

\* the call's end and the branch afterwards.  An exception of execute_command
\* becomes GitError; so does a non-zero exit of git push, after the
\* diagnostic commands.
push_changes(rp, b) ==
    LET ended(returned, push_run, after) ==
            [result |-> [behaviour |-> b, called |-> TRUE, returned |-> returned,
                         raised |-> IF returned THEN "none" ELSE "GitError",
                         push_run |-> push_run],
             repo |-> after]
    IN IF b.credentials = "raises" \/ b.status = "raises"
       THEN ended(FALSE, FALSE, rp)
       ELSE IF status_is_clean(rp, b) /\ b.ls_remote = "raises"
       THEN ended(FALSE, FALSE, rp)
       ELSE IF status_is_clean(rp, b) /\ branch_on_remote(rp, b)
       THEN ended(TRUE, FALSE, rp)
       ELSE IF b.push = "ok"
       THEN ended(TRUE, TRUE, [rp EXCEPT !.remote = rp.local])
       ELSE ended(FALSE, TRUE, rp)

----------------------------------------------------------------------------
(* Initial states *)

Drivers == {"api", "cli", "http"}

\* The CLI and the HTTP endpoint make their own, non-empty correlation id; a
\* direct caller of run() passes any string.
Init ==
    /\ driver \in Drivers
    /\ cid \in IF driver = "api" THEN CorrelationIds \cup {""} ELSE CorrelationIds
    /\ pc = IF driver = "http" THEN "http_request" ELSE "run_start"
    /\ state = InitialState(cid)
    /\ iteration = 0
    /\ changes_made = <<>>
    /\ read_paths = {}
    /\ result = NoResult
    /\ trace = <<>>
    /\ docker \in DockerStates
    /\ active_containers = NoContainers
    /\ containers = NoContainers
    /\ temp_dirs = {}
    /\ next_id = 1
    /\ cleanup_log = <<>>
    /\ active_connections = NoContainers
    /\ consumer = "absent"
    /\ accepted = <<>>
    /\ emitted = <<>>
    /\ close_calls = 0
    /\ missing_sends = 0
    /\ exc = NoException
    /\ tool_call = [r \in Runs |-> NoCall]
    /\ sandbox_op = NoOp
    /\ exec_call = NoExecCall
    /\ exec_result = NoExecResult
    /\ now = 0
    /\ requests = NoRequests
    /\ admitted_at = [c \in Clients |-> [t \in 0..MaxTime |-> 0]]
    /\ rate_decision = NoDecision
    /\ branch_response = NoText
    /\ branch_name = NoText
    /\ response = <<>>
    /\ expected_changes = <<>>
    /\ repo = NoRepo
    /\ push_result = NoPush
    /\ producer = NoProducer
    /\ producer_log = <<>>
    /\ sandbox_call = NoSandboxCall
    /\ cleaned = {}

----------------------------------------------------------------------------
(* BaseAgent.run and the graph *)

RunStart ==
    /\ UNCHANGED tlVars
    /\ UNCHANGED exVars
    /\ UNCHANGED rlVars
    /\ UNCHANGED brVars
    /\ UNCHANGED lpVars
    /\ UNCHANGED psVars
    /\ UNCHANGED pdVars
    /\ UNCHANGED lcVars
    /\ UNCHANGED stVars
    /\ pc = "run_start"
    /\ state' = InitialState(cid)
    /\ pc' = "analyze_repository"
    /\ UNCHANGED <<driver, cid, iteration, changes_made, read_paths, result, trace>>
    /\ UNCHANGED sbVars

\* analyze_repository: the node re-raises whatever fails inside it
AnalyzeRepository ==
    /\ UNCHANGED tlVars
    /\ UNCHANGED exVars
    /\ UNCHANGED rlVars
    /\ UNCHANGED brVars
    /\ UNCHANGED lpVars
    /\ UNCHANGED psVars
    /\ UNCHANGED pdVars
    /\ UNCHANGED lcVars
    /\ UNCHANGED stVars
    /\ pc = "analyze_repository"
    /\ UNCHANGED <<driver, cid, iteration, changes_made, read_paths, result>>
    /\ IF state.correlation_id = ""
       THEN /\ pc' = "raised"
            /\ trace' = Log("analyze_repository", "raised")
            /\ UNCHANGED state
            /\ UNCHANGED sbVars
       ELSE \E sb \in CreateSandboxOutcomes, tool \in {"ok", "raise"} :
            /\ create_sandbox(state.correlation_id, sb)
            /\ IF ~create_sandbox_raises(sb) /\ tool = "ok"
               THEN /\ state' = Completed([Entered(state, "analyze_repository")
                                              EXCEPT !.repo_path = "repo"],
                                          "analyze_repository")
                    /\ pc' = AfterStep("analyze_repository", state')
                    /\ trace' = Log("analyze_repository", "ok")
               ELSE /\ state' = Entered(state, "analyze_repository")
                    /\ pc' = "raised"
                    /\ trace' = Log("analyze_repository", "raised")

CreatePlan ==
    /\ UNCHANGED tlVars
    /\ UNCHANGED exVars
    /\ UNCHANGED rlVars
    /\ UNCHANGED brVars
    /\ UNCHANGED lpVars
    /\ UNCHANGED psVars
    /\ UNCHANGED pdVars
    /\ UNCHANGED lcVars
    /\ UNCHANGED stVars
    /\ pc = "create_plan"
    /\ \E out \in {"dict", "list", "raise"} :
         /\ state' = create_plan_node(state, out)
         /\ trace' = Log("create_plan", IF out = "raise" THEN "error" ELSE "ok")
    /\ pc' = AfterStep("create_plan", state')
    /\ UNCHANGED <<driver, cid, iteration, changes_made, read_paths, result>>
    /\ UNCHANGED sbVars

\* implement_changes up to the loop: branch naming and create_branch
ImplementChanges ==
    /\ UNCHANGED tlVars
    /\ UNCHANGED exVars
    /\ UNCHANGED rlVars
    /\ UNCHANGED brVars
    /\ UNCHANGED lpVars
    /\ UNCHANGED psVars
    /\ UNCHANGED pdVars
    /\ UNCHANGED lcVars
    /\ UNCHANGED stVars
    /\ pc = "implement_changes"
    /\ \E out \in {"ok", "raise"} :
         IF out = "ok"
         THEN /\ state' = [Entered(state, "implement_changes") EXCEPT !.branch_name = "branch"]
              /\ pc' = "implementation_loop"
              /\ trace' = trace
         ELSE /\ state' = Entered(state, "implement_changes")
              /\ pc' = "raised"
              /\ trace' = Log("implement_changes", "raised")
    /\ iteration' = 0
    /\ changes_made' = <<>>
    /\ read_paths' = {}
    /\ UNCHANGED <<driver, cid, result>>
    /\ UNCHANGED sbVars

\* one round of the while loop; the round that ends the loop also finishes
\* the node, whose local variables then go out of scope
ImplementationRound ==
    /\ UNCHANGED tlVars
    /\ UNCHANGED exVars
    /\ UNCHANGED rlVars
    /\ UNCHANGED brVars
    /\ UNCHANGED lpVars
    /\ UNCHANGED psVars
    /\ UNCHANGED pdVars
    /\ UNCHANGED lcVars
    /\ UNCHANGED stVars
    /\ pc = "implementation_loop"
    /\ iteration < max_iterations
    /\ \E llm \in {"ok", "raise"}, calls \in Responses :
         LET changes == TrackChanges(changes_made, calls, 1, read_paths) IN
         IF llm = "raise"
         THEN /\ calls = <<>>
              /\ pc' = "raised"
              /\ trace' = Log("implement_changes", "raised")
              /\ iteration' = 0
              /\ changes_made' = <<>>
              /\ read_paths' = {}
              /\ UNCHANGED state
         ELSE /\ Len(changes) <= MaxChanges
              /\ IF calls = <<>> \/ iteration + 1 >= max_iterations
                 THEN /\ state' = implement_changes_done(state, changes)
                      /\ pc' = AfterStep("implement_changes", state')
                      /\ trace' = Log("implement_changes", "ok")
                      /\ iteration' = 0
                      /\ changes_made' = <<>>
                      /\ read_paths' = {}
                 ELSE /\ pc' = "implementation_loop"
                      /\ iteration' = iteration + 1
                      /\ changes_made' = changes
                      /\ read_paths' = read_paths \cup ReadsOf(calls)
                      /\ UNCHANGED <<state, trace>>
    /\ UNCHANGED <<driver, cid, result>>
    /\ UNCHANGED sbVars

CommitChanges ==
    /\ UNCHANGED tlVars
    /\ UNCHANGED exVars
    /\ UNCHANGED rlVars
    /\ UNCHANGED brVars
    /\ UNCHANGED lpVars
    /\ UNCHANGED psVars
    /\ UNCHANGED pdVars
    /\ UNCHANGED lcVars
    /\ UNCHANGED stVars
    /\ pc = "commit_changes"
    /\ \E git \in GitOutcomes :
         LET out == commit_changes(git).result IN
         /\ state' = commit_changes_node(state, out)
         /\ trace' = Log("commit_changes", IF out = "raise" THEN "error" ELSE "ok")
    /\ pc' = AfterStep("commit_changes", state')
    /\ UNCHANGED <<driver, cid, iteration, changes_made, read_paths, result>>
    /\ UNCHANGED sbVars

PushChanges ==
    /\ UNCHANGED tlVars
    /\ UNCHANGED exVars
    /\ UNCHANGED rlVars
    /\ UNCHANGED brVars
    /\ UNCHANGED lpVars
    /\ UNCHANGED psVars
    /\ UNCHANGED pdVars
    /\ UNCHANGED lcVars
    /\ UNCHANGED stVars
    /\ pc = "push_changes"
    /\ \E out \in {"ok", "raise"} :
         /\ state' = push_changes_node(state, out)
         /\ trace' = Log("push_changes", IF out = "raise" THEN "error" ELSE "ok")
    /\ pc' = AfterStep("push_changes", state')
    /\ UNCHANGED <<driver, cid, iteration, changes_made, read_paths, result>>
    /\ UNCHANGED sbVars

CreatePullRequest ==
    /\ UNCHANGED tlVars
    /\ UNCHANGED exVars
    /\ UNCHANGED rlVars
    /\ UNCHANGED brVars
    /\ UNCHANGED lpVars
    /\ UNCHANGED psVars
    /\ UNCHANGED pdVars
    /\ UNCHANGED lcVars
    /\ UNCHANGED stVars
    /\ pc = "create_pull_request"
    /\ \E out \in PullRequestOutcomes :
         /\ state' = create_pull_request_node(state, out)
         /\ trace' = Log("create_pull_request",
                         IF state.plan = "dict" /\ out = "ok" THEN "ok" ELSE "swallowed")
    /\ pc' = AfterStep("create_pull_request", state')
    /\ UNCHANGED <<driver, cid, iteration, changes_made, read_paths, result>>
    /\ UNCHANGED sbVars

HandleError ==
    /\ UNCHANGED tlVars
    /\ UNCHANGED exVars
    /\ UNCHANGED rlVars
    /\ UNCHANGED brVars
    /\ UNCHANGED lpVars
    /\ UNCHANGED psVars
    /\ UNCHANGED pdVars
    /\ UNCHANGED lcVars
    /\ UNCHANGED stVars
    /\ pc = "handle_error"
    /\ state' = handle_error_node(state)
    /\ pc' = AfterHandleError(state')
    /\ trace' = Log("handle_error", "ok")
    /\ UNCHANGED <<driver, cid, iteration, changes_made, read_paths, result>>
    /\ UNCHANGED sbVars

AfterRun == IF driver = "cli" THEN "cli_cleanup" ELSE "done"

\* graph.ainvoke returned the final state
RunReturn ==
    /\ UNCHANGED tlVars
    /\ UNCHANGED exVars
    /\ UNCHANGED rlVars
    /\ UNCHANGED brVars
    /\ UNCHANGED lpVars
    /\ UNCHANGED psVars
    /\ UNCHANGED pdVars
    /\ UNCHANGED lcVars
    /\ UNCHANGED stVars
    /\ pc = END
    /\ result' = run_result(state)
    /\ pc' = AfterRun
    /\ UNCHANGED <<driver, cid, state, iteration, changes_made, read_paths, trace>>
    /\ UNCHANGED sbVars

\* graph.ainvoke raised: the except clause of run
RunExcept ==
    /\ UNCHANGED tlVars
    /\ UNCHANGED exVars
    /\ UNCHANGED rlVars
    /\ UNCHANGED brVars
    /\ UNCHANGED lpVars
    /\ UNCHANGED psVars
    /\ UNCHANGED pdVars
    /\ UNCHANGED lcVars
    /\ UNCHANGED stVars
    /\ pc = "raised"
    /\ result' = run_except_result(cid)
    /\ pc' = AfterRun
    /\ UNCHANGED <<driver, cid, state, iteration, changes_made, read_paths, trace>>
    /\ UNCHANGED sbVars

----------------------------------------------------------------------------
(* The CLI driver: after run() it calls agent.cleanup() with no argument *)

CliCleanup ==
    /\ UNCHANGED tlVars
    /\ UNCHANGED exVars
    /\ UNCHANGED rlVars
    /\ UNCHANGED brVars
    /\ UNCHANGED lpVars
    /\ UNCHANGED psVars
    /\ UNCHANGED pdVars
    /\ UNCHANGED lcVars
    /\ UNCHANGED stVars
    /\ pc = "cli_cleanup"
    /\ \E out \in CleanupOutcomes : cleanup(None, out)
    /\ pc' = "done"
    /\ UNCHANGED <<driver, cid>>
    /\ UNCHANGED wfVars

\* A direct caller of the agent calls cleanup(correlation_id) once its run is
\* over, any number of times
ApiCleanup ==
    /\ UNCHANGED tlVars
    /\ UNCHANGED exVars
    /\ UNCHANGED rlVars
    /\ UNCHANGED brVars
    /\ UNCHANGED lpVars
    /\ UNCHANGED psVars
    /\ UNCHANGED pdVars
    /\ UNCHANGED lcVars
    /\ UNCHANGED stVars
    /\ driver = "api"
    /\ pc = "done"
    /\ Len(cleanup_log) < MaxCleanups
    /\ \E out \in CleanupOutcomes : cleanup(cid, out)
    /\ UNCHANGED <<driver, cid, pc>>
    /\ UNCHANGED wfVars

----------------------------------------------------------------------------
(* The HTTP driver: create_code_changes opens the stream and schedules
   run_background_task, which runs process_code_request *)

\* create_code_changes: create_event_stream, then add_task
CreateCodeChanges ==
    /\ UNCHANGED tlVars
    /\ UNCHANGED exVars
    /\ UNCHANGED rlVars
    /\ UNCHANGED brVars
    /\ UNCHANGED lpVars
    /\ UNCHANGED psVars
    /\ UNCHANGED pdVars
    /\ UNCHANGED lcVars
    /\ pc = "http_request"
    /\ active_connections' = (cid :> <<>>) @@ active_connections
    /\ consumer' = "running"
    /\ pc' = "http_start"
    /\ UNCHANGED <<driver, cid, accepted, emitted, close_calls, missing_sends, exc>>
    /\ UNCHANGED wfVars
    /\ UNCHANGED sbVars

\* the except clause of run_background_task: send_error, and no close_stream
wrapper_error_events ==
    <<Event("Error", "Background task failed: cause", "BackgroundTaskError")>>

\* an except clause of process_code_request that sends nothing before it closes
except_events_silent(e) == <<>>

\* the except clause of process_code_request: send_error(str(e), type(e).__name__)
except_events(e) == <<Event("Error", e.message, e.type)>>

\* run_background_task up to process_code_request: the debug file and the new
\* event loop may fail, which its except clause reports
HttpStart ==
    /\ UNCHANGED tlVars
    /\ UNCHANGED exVars
    /\ UNCHANGED rlVars
    /\ UNCHANGED brVars
    /\ UNCHANGED lpVars
    /\ UNCHANGED psVars
    /\ UNCHANGED pdVars
    /\ UNCHANGED lcVars
    /\ pc = "http_start"
    /\ \E out \in {"ok", "raise"} :
         IF out = "ok"
         THEN Produce(<<>>, FALSE) /\ pc' = "http_create_sandbox"
         ELSE Produce(wrapper_error_events, FALSE) /\ pc' = "done"
    /\ UNCHANGED <<driver, cid, exc>>
    /\ UNCHANGED wfVars
    /\ UNCHANGED sbVars

HttpCreateSandbox ==
    /\ UNCHANGED tlVars
    /\ UNCHANGED exVars
    /\ UNCHANGED rlVars
    /\ UNCHANGED brVars
    /\ UNCHANGED lpVars
    /\ UNCHANGED psVars
    /\ UNCHANGED pdVars
    /\ UNCHANGED lcVars
    /\ pc = "http_create_sandbox"
    /\ \E sb \in CreateSandboxOutcomes :
         /\ create_sandbox(cid, sb)
         /\ IF ~create_sandbox_raises(sb)
            THEN /\ Produce(<<AiMessage, Progress, ToolBash>>, FALSE)
                 /\ pc' = "http_clone"
                 /\ exc' = exc
            ELSE /\ Produce(<<AiMessage, Progress>>, FALSE)
                 /\ pc' = "http_except"
                 /\ exc' = [type |-> "SandboxError",
                            message |-> "Failed to create sandbox: cause"]
    /\ UNCHANGED <<driver, cid>>
    /\ UNCHANGED wfVars

HttpCloneRepository ==
    /\ UNCHANGED tlVars
    /\ UNCHANGED exVars
    /\ UNCHANGED rlVars
    /\ UNCHANGED brVars
    /\ UNCHANGED lpVars
    /\ UNCHANGED psVars
    /\ UNCHANGED pdVars
    /\ UNCHANGED lcVars
    /\ pc = "http_clone"
    /\ \E out \in {"ok", "raise"} :
         IF out = "ok"
         THEN /\ Produce(<<AiMessage, Progress, ToolGit>>, FALSE)
              /\ pc' = "http_analyze"
              /\ exc' = exc
         ELSE /\ Produce(<<AiMessage, Progress>>, FALSE)
              /\ pc' = "http_except"
              /\ exc' = [type |-> "GitError", message |-> "Failed to clone repository: cause"]
    /\ UNCHANGED <<driver, cid>>
    /\ UNCHANGED wfVars
    /\ UNCHANGED sbVars

\* get_agent_service() hands back the CodingAgent class, which has no
\* analyze_repository method: the call raises AttributeError
HttpAnalyzeRepository ==
    /\ UNCHANGED tlVars
    /\ UNCHANGED exVars
    /\ UNCHANGED rlVars
    /\ UNCHANGED brVars
    /\ UNCHANGED lpVars
    /\ UNCHANGED psVars
    /\ UNCHANGED pdVars
    /\ UNCHANGED lcVars
    /\ pc = "http_analyze"
    /\ Produce(<<AiMessage, Progress>>, FALSE)
    /\ pc' = "http_except"
    /\ exc' = [type |-> "AttributeError",
               message |-> "'CodingAgent' object has no attribute 'analyze_repository'"]
    /\ UNCHANGED <<driver, cid>>
    /\ UNCHANGED wfVars
    /\ UNCHANGED sbVars

\* except Exception: send_error, close_stream
HttpExcept ==
    /\ UNCHANGED tlVars
    /\ UNCHANGED exVars
    /\ UNCHANGED rlVars
    /\ UNCHANGED brVars
    /\ UNCHANGED lpVars
    /\ UNCHANGED psVars
    /\ UNCHANGED pdVars
    /\ UNCHANGED lcVars
    /\ pc = "http_except"
    /\ Produce(except_events(exc), TRUE)
    /\ pc' = "http_finally"
    /\ exc' = NoException
    /\ UNCHANGED <<driver, cid>>
    /\ UNCHANGED wfVars
    /\ UNCHANGED sbVars

\* finally: cleanup_sandbox(correlation_id)
HttpFinally ==
    /\ UNCHANGED tlVars
    /\ UNCHANGED exVars
    /\ UNCHANGED rlVars
    /\ UNCHANGED brVars
    /\ UNCHANGED lpVars
    /\ UNCHANGED psVars
    /\ UNCHANGED pdVars
    /\ UNCHANGED lcVars
    /\ pc = "http_finally"
    /\ \E out \in CleanupOutcomes : cleanup_sandbox(cid, out)
    /\ pc' = "done"
    /\ UNCHANGED <<driver, cid>>
    /\ UNCHANGED wfVars
    /\ UNCHANGED stVars

----------------------------------------------------------------------------
(* event_generator, the consumer of the request's queue *)

serialize_event(event) == [data |-> event]

TypedEvents(frames) == SelectSeq(frames, LAMBDA f : f.data.type # "keepalive")

Keepalives(frames) == Len(frames) - Len(TypedEvents(frames))

\* a dequeue that skips the serialisation of the event it took
dequeue_drops(frames, event) == frames

\* what the generator yields for a dequeued event
dequeue(frames, event) == Append(frames, serialize_event(event))

\* a loop without the test for the sentinel
is_close_never(event) == FALSE

\* a loop that also stops at an Error event
is_close_or_error(event) == event = Sentinel \/ event.type = "Error"

\* `if event is None: break`
is_close(event) == event = Sentinel

\* the finally clause: the queue is closed and its entry deleted; the
\* generator "ended" after the break, or was "closed" from outside
ConsumerEnds(how) ==
    /\ consumer' = how
    /\ active_connections' = Without(active_connections, cid)

\* queue.get returned: None ends the loop, an event is serialised and yielded
ConsumerGet ==
    /\ UNCHANGED tlVars
    /\ UNCHANGED exVars
    /\ UNCHANGED rlVars
    /\ UNCHANGED brVars
    /\ UNCHANGED lpVars
    /\ UNCHANGED psVars
    /\ UNCHANGED pdVars
    /\ UNCHANGED lcVars
    /\ consumer = "running"
    /\ cid \in DOMAIN active_connections
    /\ active_connections[cid] # <<>>
    /\ LET event == Head(active_connections[cid]) IN
       IF is_close(event)
       THEN ConsumerEnds("ended") /\ emitted' = emitted
       ELSE /\ emitted' = dequeue(emitted, event)
            /\ active_connections' = [active_connections EXCEPT ![cid] = Tail(@)]
            /\ consumer' = consumer
    /\ UNCHANGED <<driver, cid, pc, accepted, close_calls, missing_sends, exc>>
    /\ UNCHANGED wfVars
    /\ UNCHANGED sbVars

\* queue.get timed out after one second on an empty queue
ConsumerKeepalive ==
    /\ UNCHANGED tlVars
    /\ UNCHANGED exVars
    /\ UNCHANGED rlVars
    /\ UNCHANGED brVars
    /\ UNCHANGED lpVars
    /\ UNCHANGED psVars
    /\ UNCHANGED pdVars
    /\ UNCHANGED lcVars
    /\ consumer = "running"
    /\ cid \in DOMAIN active_connections
    /\ active_connections[cid] = <<>>
    /\ Keepalives(emitted) < MaxKeepalives
    /\ emitted' = Append(emitted, serialize_event(Keepalive))
    /\ UNCHANGED <<driver, cid, pc, active_connections, consumer, accepted, close_calls,
                   missing_sends, exc>>
    /\ UNCHANGED wfVars
    /\ UNCHANGED sbVars

\* the client goes away: the generator is closed and its finally clause runs
ClientDisconnect ==
    /\ UNCHANGED tlVars
    /\ UNCHANGED exVars
    /\ UNCHANGED rlVars
    /\ UNCHANGED brVars
    /\ UNCHANGED lpVars
    /\ UNCHANGED psVars
    /\ UNCHANGED pdVars
    /\ UNCHANGED lcVars
    /\ consumer = "running"
    /\ ConsumerEnds("closed")
    /\ UNCHANGED <<driver, cid, pc, accepted, emitted, close_calls, missing_sends, exc>>
    /\ UNCHANGED wfVars
    /\ UNCHANGED sbVars

----------------------------------------------------------------------------

Next ==
    \/ RunStart
    \/ AnalyzeRepository
    \/ CreatePlan
    \/ ImplementChanges
    \/ ImplementationRound
    \/ CommitChanges
    \/ PushChanges
    \/ CreatePullRequest
    \/ HandleError
    \/ RunReturn
    \/ RunExcept
    \/ CliCleanup
    \/ ApiCleanup
    \/ CreateCodeChanges
    \/ HttpStart
    \/ HttpCreateSandbox
    \/ HttpCloneRepository
    \/ HttpAnalyzeRepository
    \/ HttpExcept
    \/ HttpFinally
    \/ ConsumerGet
    \/ ConsumerKeepalive
    \/ ClientDisconnect

Spec == Init /\ [][Next]_vars

\* Every await of a driver returns or raises, and the event loop then runs
\* the coroutine on: the next step of a run is eventually taken.
FairSpec == Spec /\ WF_vars(Next)

----------------------------------------------------------------------------
(* The tool dispatch on its own: runs A and B are both inside the loop of
   implement_changes, their sandboxes registered by analyze_repository. The
   variables of the single run above keep the values given here. *)

ToolInit ==
    /\ driver = "api"
    /\ cid = RunIds["A"]
    /\ pc = "implementation_loop"
    /\ state = RunState("A")
    /\ iteration = 0
    /\ changes_made = <<>>
    /\ read_paths = {}
    /\ result = NoResult
    /\ trace = <<>>
    /\ docker = [client |-> TRUE, docker_available |-> TRUE]
    /\ active_containers = [c \in {"c1", "c2"} |->
                               IF c = "c1" THEN [container |-> 1, temp_dir |-> 1]
                                           ELSE [container |-> 2, temp_dir |-> 2]]
    /\ containers = [i \in {1, 2} |->
                        [status |-> "running",
                         correlation_id |-> IF i = 1 THEN "c1" ELSE "c2"]]
    /\ temp_dirs = {1, 2}
    /\ next_id = 3
    /\ cleanup_log = <<>>
    /\ active_connections = NoContainers
    /\ consumer = "absent"
    /\ accepted = <<>>
    /\ emitted = <<>>
    /\ close_calls = 0
    /\ missing_sends = 0
    /\ exc = NoException
    /\ tool_call = [r \in Runs |-> NoCall]
    /\ sandbox_op = NoOp
    /\ exec_call = NoExecCall
    /\ exec_result = NoExecResult
    /\ now = 0
    /\ requests = NoRequests
    /\ admitted_at = [c \in Clients |-> [t \in 0..MaxTime |-> 0]]
    /\ rate_decision = NoDecision
    /\ branch_response = NoText
    /\ branch_name = NoText
    /\ response = <<>>
    /\ expected_changes = <<>>
    /\ repo = NoRepo
    /\ push_result = NoPush
    /\ producer = NoProducer
    /\ producer_log = <<>>
    /\ sandbox_call = NoSandboxCall
    /\ cleaned = {}

\* the capability's response carries a tool call
CapabilityResponds(r) ==
    /\ UNCHANGED exVars
    /\ UNCHANGED rlVars
    /\ UNCHANGED brVars
    /\ UNCHANGED lpVars
    /\ UNCHANGED psVars
    /\ UNCHANGED pdVars
    /\ UNCHANGED lcVars
    /\ tool_call[r] = NoCall
    /\ \E request \in ToolRequests : tool_call' = [tool_call EXCEPT ![r] = request]
    /\ UNCHANGED sandbox_op
    /\ UNCHANGED <<driver, cid, pc>>
    /\ UNCHANGED wfVars
    /\ UNCHANGED sbVars
    /\ UNCHANGED stVars

\* the loop executes the tool call in hand
ExecuteToolCall(r) ==
    /\ UNCHANGED exVars
    /\ UNCHANGED rlVars
    /\ UNCHANGED brVars
    /\ UNCHANGED lpVars
    /\ UNCHANGED psVars
    /\ UNCHANGED pdVars
    /\ UNCHANGED lcVars
    /\ tool_call[r] # NoCall
    /\ invoke_tool(r, tool_call[r])
    /\ tool_call' = [tool_call EXCEPT ![r] = NoCall]
    /\ UNCHANGED <<driver, cid, pc>>
    /\ UNCHANGED wfVars
    /\ UNCHANGED sbVars
    /\ UNCHANGED stVars

ToolNext ==
    \/ \E r \in Runs : CapabilityResponds(r)
    \/ \E r \in Runs : ExecuteToolCall(r)

ToolSpec == ToolInit /\ [][ToolNext]_vars

TypeOK ==
    /\ driver \in Drivers
    /\ iteration \in 0..max_iterations
    /\ state.retry_count \in 0..MaxRetryCount
    /\ Len(changes_made) <= MaxChanges

----------------------------------------------------------------------------
(* execute_command on its own: a registry with any of the two sandboxes, the
   backend present or not, and a caller who issues one command after another.
   The variables of the runs above keep the values given here. *)

Registries ==
    {[c \in ids |-> IF c = "c1" THEN [container |-> 1, temp_dir |-> 1]
                                ELSE [container |-> 2, temp_dir |-> 2]] :
        ids \in SUBSET {"c1", "c2"}}

ExecInit ==
    /\ driver = "api"
    /\ cid = "c1"
    /\ pc = "done"
    /\ state = InitialState("c1")
    /\ iteration = 0
    /\ changes_made = <<>>
    /\ read_paths = {}
    /\ result = NoResult
    /\ trace = <<>>
    /\ docker \in DockerStates
    /\ active_containers \in Registries
    /\ containers = [i \in {active_containers[c].container : c \in DOMAIN active_containers} |->
                        [status |-> "running",
                         correlation_id |-> IF i = 1 THEN "c1" ELSE "c2"]]
    /\ temp_dirs = DOMAIN containers
    /\ next_id = 3
    /\ cleanup_log = <<>>
    /\ active_connections = NoContainers
    /\ consumer = "absent"
    /\ accepted = <<>>
    /\ emitted = <<>>
    /\ close_calls = 0
    /\ missing_sends = 0
    /\ exc = NoException
    /\ tool_call = [r \in Runs |-> NoCall]
    /\ sandbox_op = NoOp
    /\ exec_call = NoExecCall
    /\ exec_result = NoExecResult
    /\ now = 0
    /\ requests = NoRequests
    /\ admitted_at = [c \in Clients |-> [t \in 0..MaxTime |-> 0]]
    /\ rate_decision = NoDecision
    /\ branch_response = NoText
    /\ branch_name = NoText
    /\ response = <<>>
    /\ expected_changes = <<>>
    /\ repo = NoRepo
    /\ push_result = NoPush
    /\ producer = NoProducer
    /\ producer_log = <<>>
    /\ sandbox_call = NoSandboxCall
    /\ cleaned = {}

ExecUnchanged ==
    /\ UNCHANGED <<driver, cid, pc>>
    /\ UNCHANGED wfVars
    /\ UNCHANGED sbVars
    /\ UNCHANGED stVars
    /\ UNCHANGED tlVars
    /\ UNCHANGED rlVars
    /\ UNCHANGED brVars
    /\ UNCHANGED lpVars
    /\ UNCHANGED psVars
    /\ UNCHANGED pdVars
    /\ UNCHANGED lcVars

\* execute_command is entered: it raises at once, or container.exec_run starts
ExecuteCommand ==
    /\ exec_call = NoExecCall
    /\ \E c \in {"c1", "c2"}, timeout \in {0, 1}, behaviour \in ExecBehaviours :
         IF execute_command_rejected(c)
         THEN /\ exec_result' = [NoExecResult EXCEPT !.correlation_id = c,
                                                     !.raised = "SandboxError"]
              /\ UNCHANGED exec_call
         ELSE /\ exec_call' = [correlation_id |-> c,
                               timeout |-> timeout,
                               container |-> active_containers[c].container,
                               elapsed |-> 0,
                               behaviour |-> behaviour]
              /\ exec_result' = NoExecResult
    /\ ExecUnchanged

\* time passes while container.exec_run blocks
ExecTick ==
    /\ exec_call # NoExecCall
    /\ exec_call.elapsed < MaxElapsed
    /\ ~exec_call.behaviour.finishes \/ exec_call.elapsed < exec_call.behaviour.duration
    /\ exec_call' = [exec_call EXCEPT !.elapsed = @ + 1]
    /\ UNCHANGED exec_result
    /\ ExecUnchanged

\* container.exec_run comes back, and execute_command with it
ExecReturns ==
    /\ exec_call # NoExecCall
    /\ exec_call.behaviour.finishes
    /\ exec_call.elapsed = exec_call.behaviour.duration
    /\ exec_result' = exec_run_result(exec_call)
    /\ exec_call' = NoExecCall
    /\ ExecUnchanged

ExecNext ==
    \/ ExecuteCommand
    \/ ExecTick
    \/ ExecReturns

ExecSpec == ExecInit /\ [][ExecNext]_vars

----------------------------------------------------------------------------
(* The rate limiter on its own: requests of two clients arrive at the
   endpoint while the clock advances. The variables of the runs above keep
   the values given here. *)

RateInit ==
    /\ driver = "http"
    /\ cid = "c1"
    /\ pc = "http_request"
    /\ state = InitialState("c1")
    /\ iteration = 0
    /\ changes_made = <<>>
    /\ read_paths = {}
    /\ result = NoResult
    /\ trace = <<>>
    /\ docker = [client |-> TRUE, docker_available |-> TRUE]
    /\ active_containers = NoContainers
    /\ containers = NoContainers
    /\ temp_dirs = {}
    /\ next_id = 1
    /\ cleanup_log = <<>>
    /\ active_connections = NoContainers
    /\ consumer = "absent"
    /\ accepted = <<>>
    /\ emitted = <<>>
    /\ close_calls = 0
    /\ missing_sends = 0
    /\ exc = NoException
    /\ tool_call = [r \in Runs |-> NoCall]
    /\ sandbox_op = NoOp
    /\ exec_call = NoExecCall
    /\ exec_result = NoExecResult
    /\ now = 0
    /\ requests = NoRequests
    /\ admitted_at = [c \in Clients |-> [t \in 0..MaxTime |-> 0]]
    /\ rate_decision = NoDecision
    /\ branch_response = NoText
    /\ branch_name = NoText
    /\ response = <<>>
    /\ expected_changes = <<>>
    /\ repo = NoRepo
    /\ push_result = NoPush
    /\ producer = NoProducer
    /\ producer_log = <<>>
    /\ sandbox_call = NoSandboxCall
    /\ cleaned = {}

RateUnchanged ==
    /\ UNCHANGED <<driver, cid, pc>>
    /\ UNCHANGED wfVars
    /\ UNCHANGED sbVars
    /\ UNCHANGED stVars
    /\ UNCHANGED tlVars
    /\ UNCHANGED exVars
    /\ UNCHANGED brVars
    /\ UNCHANGED lpVars
    /\ UNCHANGED psVars
    /\ UNCHANGED pdVars
    /\ UNCHANGED lcVars

\* create_code_changes asks the limiter about a request of client_ip
CheckRateLimit ==
    /\ \E client_ip \in Clients :
         LET answer == check_rate_limit(requests, client_ip, now,
                                        rate_limit_requests, rate_limit_window)
         IN /\ requests' = answer.requests
            /\ rate_decision' = [client |-> client_ip, admitted |-> answer.admitted]
            /\ admitted_at' = IF answer.admitted
                               THEN [admitted_at EXCEPT ![client_ip][now] = @ + 1]
                               ELSE admitted_at
    /\ UNCHANGED now
    /\ RateUnchanged

RateTick ==
    /\ now < MaxTime
    /\ now' = now + 1
    /\ UNCHANGED <<requests, admitted_at, rate_decision>>
    /\ RateUnchanged

RateNext ==
    \/ CheckRateLimit
    \/ RateTick

RateSpec == RateInit /\ [][RateNext]_vars

----------------------------------------------------------------------------
(* The branch naming on its own: the capability answers, and the step makes
   the branch name of the answer. The variables of the runs above keep the
   values given here. *)

BranchInit == RateInit

BranchUnchanged ==
    /\ UNCHANGED <<driver, cid, pc>>
    /\ UNCHANGED wfVars
    /\ UNCHANGED sbVars
    /\ UNCHANGED stVars
    /\ UNCHANGED tlVars
    /\ UNCHANGED exVars
    /\ UNCHANGED rlVars
    /\ UNCHANGED lpVars
    /\ UNCHANGED psVars
    /\ UNCHANGED pdVars
    /\ UNCHANGED lcVars

\* self.llm.ainvoke(branch_prompt)
BranchCapabilityAnswers ==
    /\ branch_response = NoText
    /\ branch_response' \in BranchResponses
    /\ branch_name' = NoText
    /\ BranchUnchanged

\* the name is computed and handed to create_branch
CreateBranch ==
    /\ branch_response # NoText
    /\ \E timestamp \in Timestamps :
         branch_name' = make_branch_name(branch_response, timestamp)
    /\ branch_response' = NoText
    /\ BranchUnchanged

BranchNext ==
    \/ BranchCapabilityAnswers
    \/ CreateBranch

BranchSpec == BranchInit /\ [][BranchNext]_vars

----------------------------------------------------------------------------
(* The loop of implement_changes on its own, from the first round of one
   execution to the end of the node. The variables that do not belong to the
   execution keep the values given here. *)

LoopInit ==
    /\ driver = "api"
    /\ cid = "c1"
    /\ pc = "implementation_loop"
    /\ state = [Completed(Completed([InitialState("c1") EXCEPT !.repo_path = "repo",
                                                               !.plan = "dict"],
                                     "analyze_repository"),
                           "create_plan")
                   EXCEPT !.current_step = "implement_changes", !.branch_name = "branch"]
    /\ iteration = 0
    /\ changes_made = <<>>
    /\ read_paths = {}
    /\ result = NoResult
    /\ trace = <<[node |-> "analyze_repository", outcome |-> "ok"],
                 [node |-> "create_plan", outcome |-> "ok"]>>
    /\ docker = [client |-> TRUE, docker_available |-> TRUE]
    /\ active_containers = [c \in {"c1"} |-> [container |-> 1, temp_dir |-> 1]]
    /\ containers = [i \in {1} |-> [status |-> "running", correlation_id |-> "c1"]]
    /\ temp_dirs = {1}
    /\ next_id = 2
    /\ cleanup_log = <<>>
    /\ active_connections = NoContainers
    /\ consumer = "absent"
    /\ accepted = <<>>
    /\ emitted = <<>>
    /\ close_calls = 0
    /\ missing_sends = 0
    /\ exc = NoException
    /\ tool_call = [r \in Runs |-> NoCall]
    /\ sandbox_op = NoOp
    /\ exec_call = NoExecCall
    /\ exec_result = NoExecResult
    /\ now = 0
    /\ requests = NoRequests
    /\ admitted_at = [c \in Clients |-> [t \in 0..MaxTime |-> 0]]
    /\ rate_decision = NoDecision
    /\ branch_response = NoText
    /\ branch_name = NoText
    /\ response = <<>>
    /\ expected_changes = <<>>
    /\ repo = NoRepo
    /\ push_result = NoPush
    /\ producer = NoProducer
    /\ producer_log = <<>>
    /\ sandbox_call = NoSandboxCall
    /\ cleaned = {}

LoopUnchanged ==
    /\ UNCHANGED <<driver, cid, result>>
    /\ UNCHANGED sbVars
    /\ UNCHANGED stVars
    /\ UNCHANGED tlVars
    /\ UNCHANGED exVars
    /\ UNCHANGED rlVars
    /\ UNCHANGED brVars
    /\ UNCHANGED psVars
    /\ UNCHANGED pdVars
    /\ UNCHANGED lcVars

\* one round: the capability is invoked, its tool calls are executed and the
\* writes recorded; then the loop goes on or is left
LoopRound ==
    /\ pc = "implementation_loop"
    /\ iteration < max_iterations
    /\ \E llm \in {"ok", "raise"}, calls \in Responses :
         IF llm = "raise"
         THEN /\ calls = <<>>
              /\ pc' = "raised"
              /\ trace' = Log("implement_changes", "raised")
              /\ iteration' = iteration + 1
              /\ UNCHANGED <<state, changes_made, read_paths, response, expected_changes>>
         ELSE /\ iteration' = iteration + 1
              /\ response' = calls
              /\ changes_made' = TrackChanges(changes_made, calls, 1, read_paths)
              /\ expected_changes' = ExpectChanges(expected_changes, calls, 1, read_paths)
              /\ Len(changes_made') <= MaxLoopChanges
              /\ read_paths' = read_paths \cup ReadsOf(calls)
              /\ pc' = IF loop_continues(calls, iteration') THEN "implementation_loop"
                                                             ELSE "implementation_done"
              /\ UNCHANGED <<state, trace>>
    /\ LoopUnchanged

\* the rest of the node after the loop
LoopFinish ==
    /\ pc = "implementation_done"
    /\ state' = implement_changes_done(state, changes_made)
    /\ pc' = AfterStep("implement_changes", state')
    /\ trace' = Log("implement_changes", "ok")
    /\ UNCHANGED <<iteration, changes_made, read_paths, response, expected_changes>>
    /\ LoopUnchanged

LoopNext ==
    \/ LoopRound
    \/ LoopFinish

LoopSpec == LoopInit /\ [][LoopNext]_vars

----------------------------------------------------------------------------
(* push_changes on its own: the branch gets commits and uncommitted edits
   between the calls *)

PushInit == RateInit

PushUnchanged ==
    /\ UNCHANGED <<driver, cid, pc>>
    /\ UNCHANGED wfVars
    /\ UNCHANGED sbVars
    /\ UNCHANGED stVars
    /\ UNCHANGED tlVars
    /\ UNCHANGED exVars
    /\ UNCHANGED rlVars
    /\ UNCHANGED brVars
    /\ UNCHANGED lpVars
    /\ UNCHANGED pdVars
    /\ UNCHANGED lcVars

\* write_file_content: a file of the clone is written
PushWrite ==
    /\ repo' = [repo EXCEPT !.dirty = TRUE]
    /\ push_result' = NoPush
    /\ PushUnchanged

\* commit_changes: git add . and git commit of what was written
PushCommit ==
    /\ repo.dirty
    /\ repo.local < MaxCommits
    /\ repo' = [repo EXCEPT !.local = @ + 1, !.dirty = FALSE]
    /\ push_result' = NoPush
    /\ PushUnchanged

\* one call of push_changes
PushCall ==
    /\ \E b \in PushBehaviours :
         /\ repo' = push_changes(repo, b).repo
         /\ push_result' = push_changes(repo, b).result
    /\ PushUnchanged

PushNext ==
    \/ PushWrite
    \/ PushCommit
    \/ PushCall

PushSpec == PushInit /\ [][PushNext]_vars

----------------------------------------------------------------------------
(* The last stages of process_code_request on their own: commit, push and
   pull request, from the state in which implement_changes has returned, with
   the consumer of the stream running beside them.  No request of the shipped
   pipeline gets this far (HttpAnalyzeRepository); the stages are followed
   from here to see what their code does. *)

PullRequestError ==
    [type |-> "GitError", message |-> "Failed to create pull request: cause"]

TailInit ==
    /\ driver = "http"
    /\ cid = "c1"
    /\ pc = "http_commit"
    /\ state = InitialState("c1")
    /\ iteration = 0
    /\ changes_made = <<>>
    /\ read_paths = {}
    /\ result = NoResult
    /\ trace = <<>>
    /\ docker = [client |-> TRUE, docker_available |-> TRUE]
    /\ active_containers = [c \in {"c1"} |-> [container |-> 1, temp_dir |-> 1]]
    /\ containers = [i \in {1} |-> [status |-> "running", correlation_id |-> "c1"]]
    /\ temp_dirs = {1}
    /\ next_id = 2
    /\ cleanup_log = <<>>
    /\ active_connections = [c \in {"c1"} |-> <<>>]
    /\ consumer = "running"
    /\ accepted = <<>>
    /\ emitted = <<>>
    /\ close_calls = 0
    /\ missing_sends = 0
    /\ exc = NoException
    /\ tool_call = [r \in Runs |-> NoCall]
    /\ sandbox_op = NoOp
    /\ exec_call = NoExecCall
    /\ exec_result = NoExecResult
    /\ now = 0
    /\ requests = NoRequests
    /\ admitted_at = [c \in Clients |-> [t \in 0..MaxTime |-> 0]]
    /\ rate_decision = NoDecision
    /\ branch_response = NoText
    /\ branch_name = NoText
    /\ response = <<>>
    /\ expected_changes = <<>>
    /\ repo = NoRepo
    /\ push_result = NoPush
    /\ producer = NoProducer
    /\ producer_log = <<>>
    /\ sandbox_call = NoSandboxCall
    /\ cleaned = {}

\* "Committing changes...", commit_changes, the git tool event
HttpCommitChanges ==
    /\ UNCHANGED tlVars
    /\ UNCHANGED exVars
    /\ UNCHANGED rlVars
    /\ UNCHANGED brVars
    /\ UNCHANGED lpVars
    /\ UNCHANGED psVars
    /\ UNCHANGED pdVars
    /\ UNCHANGED lcVars
    /\ pc = "http_commit"
    /\ \E out \in {"ok", "raise"} :
         IF out = "ok"
         THEN /\ Produce(<<AiMessage, Progress, ToolGit>>, FALSE)
              /\ pc' = "http_push"
              /\ exc' = exc
         ELSE /\ Produce(<<AiMessage, Progress>>, FALSE)
              /\ pc' = "http_except"
              /\ exc' = [type |-> "GitError", message |-> "Failed to commit changes: cause"]
    /\ UNCHANGED <<driver, cid>>
    /\ UNCHANGED wfVars
    /\ UNCHANGED sbVars

\* "Pushing changes to remote...", push_changes, the git tool event
HttpPushChanges ==
    /\ UNCHANGED tlVars
    /\ UNCHANGED exVars
    /\ UNCHANGED rlVars
    /\ UNCHANGED brVars
    /\ UNCHANGED lpVars
    /\ UNCHANGED psVars
    /\ UNCHANGED pdVars
    /\ UNCHANGED lcVars
    /\ pc = "http_push"
    /\ \E out \in {"ok", "raise"} :
         IF out = "ok"
         THEN /\ Produce(<<AiMessage, Progress, ToolGit>>, FALSE)
              /\ pc' = "http_create_pull_request"
              /\ exc' = exc
         ELSE /\ Produce(<<AiMessage, Progress>>, FALSE)
              /\ pc' = "http_except"
              /\ exc' = [type |-> "GitError", message |-> "Failed to push changes: cause"]
    /\ UNCHANGED <<driver, cid>>
    /\ UNCHANGED wfVars
    /\ UNCHANGED sbVars

\* "Creating pull request...", create_pull_request; then the tool event,
\* progress 100, send_success and close_stream.  A GitError of
\* create_pull_request reaches the except clause of the pipeline.
HttpCreatePullRequest ==
    /\ UNCHANGED tlVars
    /\ UNCHANGED exVars
    /\ UNCHANGED rlVars
    /\ UNCHANGED brVars
    /\ UNCHANGED lpVars
    /\ UNCHANGED psVars
    /\ UNCHANGED pdVars
    /\ UNCHANGED lcVars
    /\ pc = "http_create_pull_request"
    /\ \E out \in {"ok", "raise"} :
         IF out = "ok"
         THEN /\ Produce(<<AiMessage, Progress, ToolGit, Progress, Success>>, TRUE)
              /\ pc' = "http_finally"
              /\ exc' = exc
         ELSE /\ Produce(<<AiMessage, Progress>>, FALSE)
              /\ pc' = "http_except"
              /\ exc' = PullRequestError
    /\ UNCHANGED <<driver, cid>>
    /\ UNCHANGED wfVars
    /\ UNCHANGED sbVars

TailNext ==
    \/ HttpCommitChanges
    \/ HttpPushChanges
    \/ HttpCreatePullRequest
    \/ HttpExcept
    \/ HttpFinally
    \/ ConsumerGet
    \/ ConsumerKeepalive
    \/ ClientDisconnect

TailSpec == TailInit /\ [][TailNext]_vars

----------------------------------------------------------------------------
(* StreamingService on its own: one channel, a producer thread that calls
   send_event and close_stream in any order, and the event_generator of the
   channel, whose finally clause closes the queue and then deletes the entry.
   consumer is "running", then "closing" (the loop is left), "deleting" (the
   queue is closed) and "ended" (the entry is deleted). *)

StreamInit ==
    /\ driver = "http"
    /\ cid = "c1"
    /\ pc = "http_start"
    /\ state = InitialState("c1")
    /\ iteration = 0
    /\ changes_made = <<>>
    /\ read_paths = {}
    /\ result = NoResult
    /\ trace = <<>>
    /\ docker = [client |-> TRUE, docker_available |-> TRUE]
    /\ active_containers = NoContainers
    /\ containers = NoContainers
    /\ temp_dirs = {}
    /\ next_id = 1
    /\ cleanup_log = <<>>
    /\ active_connections = [c \in {"c1"} |-> <<>>]
    /\ consumer = "running"
    /\ accepted = <<>>
    /\ emitted = <<>>
    /\ close_calls = 0
    /\ missing_sends = 0
    /\ exc = NoException
    /\ tool_call = [r \in Runs |-> NoCall]
    /\ sandbox_op = NoOp
    /\ exec_call = NoExecCall
    /\ exec_result = NoExecResult
    /\ now = 0
    /\ requests = NoRequests
    /\ admitted_at = [c \in Clients |-> [t \in 0..MaxTime |-> 0]]
    /\ rate_decision = NoDecision
    /\ branch_response = NoText
    /\ branch_name = NoText
    /\ response = <<>>
    /\ expected_changes = <<>>
    /\ repo = NoRepo
    /\ push_result = NoPush
    /\ producer = NoProducer
    /\ producer_log = <<>>
    /\ sandbox_call = NoSandboxCall
    /\ cleaned = {}

StreamUnchanged ==
    /\ UNCHANGED <<driver, cid, pc, exc>>
    /\ UNCHANGED wfVars
    /\ UNCHANGED sbVars
    /\ UNCHANGED tlVars
    /\ UNCHANGED exVars
    /\ UNCHANGED rlVars
    /\ UNCHANGED brVars
    /\ UNCHANGED lpVars
    /\ UNCHANGED psVars
    /\ UNCHANGED lcVars

Ended(item, outcome, raised) ==
    Append(producer_log, [item |-> item, outcome |-> outcome, raised |-> raised])

\* send_event / close_stream is called: `if correlation_id in
\* self.active_connections`; the else branch writes a debug file at most
ProducerChecks ==
    /\ producer.pos = "idle"
    /\ Len(producer_log) < MaxProducerCalls
    /\ \E item \in ProducerItems :
         /\ close_calls' = close_calls + (IF item = Sentinel THEN 1 ELSE 0)
         /\ IF cid \in DOMAIN active_connections
            THEN /\ producer' = [pos |-> "checked", item |-> item]
                 /\ UNCHANGED <<producer_log, missing_sends>>
            ELSE /\ producer' = NoProducer
                 /\ producer_log' = Ended(item, "missing", FALSE)
                 /\ missing_sends' = missing_sends + (IF item = Sentinel THEN 0 ELSE 1)
    /\ UNCHANGED <<active_connections, consumer, accepted, emitted>>
    /\ StreamUnchanged

\* the put of the call under way, and its return
ProducerPuts ==
    /\ producer.pos = "checked"
    /\ LET done == put(active_connections, cid, consumer = "deleting", producer.item) IN
         /\ active_connections' = done.conns
         /\ accepted' = IF done.outcome = "enqueued"
                        THEN Append(accepted, producer.item) ELSE accepted
         /\ producer_log' = Ended(producer.item, done.outcome, done.raised)
    /\ producer' = NoProducer
    /\ UNCHANGED <<consumer, emitted, close_calls, missing_sends>>
    /\ StreamUnchanged

\* queue.get returned: None leaves the loop, an event is serialised and yielded
StreamConsumerGet ==
    /\ consumer = "running"
    /\ cid \in DOMAIN active_connections
    /\ active_connections[cid] # <<>>
    /\ LET event == Head(active_connections[cid]) IN
         /\ emitted' = IF is_close(event) THEN emitted ELSE dequeue(emitted, event)
         /\ consumer' = IF is_close(event) THEN "closing" ELSE consumer
    /\ active_connections' = [active_connections EXCEPT ![cid] = Tail(@)]
    /\ UNCHANGED <<accepted, close_calls, missing_sends>>
    /\ UNCHANGED pdVars
    /\ StreamUnchanged

\* queue.get timed out on an empty queue
StreamConsumerKeepalive ==
    /\ consumer = "running"
    /\ cid \in DOMAIN active_connections
    /\ active_connections[cid] = <<>>
    /\ Keepalives(emitted) < MaxKeepalives
    /\ emitted' = Append(emitted, serialize_event(Keepalive))
    /\ UNCHANGED <<active_connections, consumer, accepted, close_calls, missing_sends>>
    /\ UNCHANGED pdVars
    /\ StreamUnchanged

\* the client goes away: the generator is closed at its yield
StreamClientDisconnect ==
    /\ consumer = "running"
    /\ consumer' = "closing"
    /\ UNCHANGED <<active_connections, accepted, emitted, close_calls, missing_sends>>
    /\ UNCHANGED pdVars
    /\ StreamUnchanged

\* finally: self.active_connections[correlation_id].close()
StreamConsumerCloses ==
    /\ consumer = "closing"
    /\ consumer' = "deleting"
    /\ UNCHANGED <<active_connections, accepted, emitted, close_calls, missing_sends>>
    /\ UNCHANGED pdVars
    /\ StreamUnchanged

\* finally: del self.active_connections[correlation_id]
StreamConsumerDeletes ==
    /\ consumer = "deleting"
    /\ consumer' = "ended"
    /\ active_connections' = Without(active_connections, cid)
    /\ UNCHANGED <<accepted, emitted, close_calls, missing_sends>>
    /\ UNCHANGED pdVars
    /\ StreamUnchanged

StreamNext ==
    \/ ProducerChecks
    \/ ProducerPuts
    \/ StreamConsumerGet
    \/ StreamConsumerKeepalive
    \/ StreamClientDisconnect
    \/ StreamConsumerCloses
    \/ StreamConsumerDeletes

StreamSpec == StreamInit /\ [][StreamNext]_vars

----------------------------------------------------------------------------
(* SandboxService on its own: sandboxes of two correlation ids are created
   and cleaned up, and operations are called for them in any order *)

SandboxIds == {"c1", "c2"}

LifeInit ==
    /\ driver = "api"
    /\ cid = "c1"
    /\ pc = "done"
    /\ state = InitialState("c1")
    /\ iteration = 0
    /\ changes_made = <<>>
    /\ read_paths = {}
    /\ result = NoResult
    /\ trace = <<>>
    /\ docker \in DockerStates
    /\ active_containers = NoContainers
    /\ containers = NoContainers
    /\ temp_dirs = {}
    /\ next_id = 1
    /\ cleanup_log = <<>>
    /\ active_connections = NoContainers
    /\ consumer = "absent"
    /\ accepted = <<>>
    /\ emitted = <<>>
    /\ close_calls = 0
    /\ missing_sends = 0
    /\ exc = NoException
    /\ tool_call = [r \in Runs |-> NoCall]
    /\ sandbox_op = NoOp
    /\ exec_call = NoExecCall
    /\ exec_result = NoExecResult
    /\ now = 0
    /\ requests = NoRequests
    /\ admitted_at = [c \in Clients |-> [t \in 0..MaxTime |-> 0]]
    /\ rate_decision = NoDecision
    /\ branch_response = NoText
    /\ branch_name = NoText
    /\ response = <<>>
    /\ expected_changes = <<>>
    /\ repo = NoRepo
    /\ push_result = NoPush
    /\ producer = NoProducer
    /\ producer_log = <<>>
    /\ sandbox_call = NoSandboxCall
    /\ cleaned = {}

LifeUnchanged ==
    /\ UNCHANGED <<driver, cid, pc>>
    /\ UNCHANGED wfVars
    /\ UNCHANGED stVars
    /\ UNCHANGED tlVars
    /\ UNCHANGED exVars
    /\ UNCHANGED rlVars
    /\ UNCHANGED brVars
    /\ UNCHANGED lpVars
    /\ UNCHANGED psVars
    /\ UNCHANGED pdVars

LifeCreateSandbox ==
    /\ next_id <= MaxSandboxes
    /\ \E c \in SandboxIds, out \in CreateSandboxOutcomes :
         /\ create_sandbox(c, out)
         /\ cleaned' = cleaned \ {c}
    /\ UNCHANGED sandbox_call
    /\ LifeUnchanged

LifeCleanupSandbox ==
    /\ Len(cleanup_log) < MaxCleanups
    /\ \E c \in SandboxIds, out \in CleanupOutcomes :
         /\ cleanup_sandbox(c, out)
         /\ cleaned' = IF c \in DOMAIN active_containers /\ c \notin DOMAIN active_containers'
                        THEN cleaned \cup {c} ELSE cleaned
    /\ UNCHANGED sandbox_call
    /\ LifeUnchanged

LifeOperation ==
    /\ sandbox_call.seq < MaxSandboxCalls
    /\ \E op \in SandboxOps, c \in SandboxIds, needs_mkdir \in BOOLEAN,
          backend \in BackendOutcomes :
         LET done == sandbox_operation(op, c, needs_mkdir, backend) IN
         sandbox_call' = [seq |-> sandbox_call.seq + 1, op |-> op, correlation_id |-> c,
                          raised |-> done.raised, container |-> done.container]
    /\ UNCHANGED cleaned
    /\ UNCHANGED sbVars
    /\ LifeUnchanged

LifeNext ==
    \/ LifeCreateSandbox
    \/ LifeCleanupSandbox
    \/ LifeOperation

LifeSpec == LifeInit /\ [][LifeNext]_vars

----------------------------------------------------------------------------
(* Properties of the workflow engine, read off the history of executed nodes *)

Last(q) == q[Len(q)]

Raising == {"error", "raised"}

Entries(node) == {i \in 1..Len(trace) : trace[i].node = node}

HandleErrorEntries == Cardinality(Entries("handle_error"))

\* a restart: analyze_repository run straight after handle_error
Restarts ==
    Cardinality({i \in 2..Len(trace) :
                    trace[i].node = "analyze_repository" /\ trace[i - 1].node = "handle_error"})

\* C1: for every input run() terminates and returns a result with a boolean
\* success field; one execution of implement_changes runs at most 10 rounds
\* of its loop and the workflow enters handle_error at most 3 times.
C1_RunTerminates ==
    /\ (driver # "http") => <>(result.returned)
    /\ [](/\ (pc = "implementation_loop") => (iteration < 10)
          /\ HandleErrorEntries <= 3
          /\ result.returned => ("success" \in result.keys /\ result.success \in BOOLEAN))

C1_Witness == result.returned /\ HandleErrorEntries = 3

\* C2: run() never lets an exception reach its caller: whatever failed inside
\* the workflow, the caller holds a result with success and correlation_id.
C2_RunNeverPropagates ==
    /\ ~result.raised
    /\ (driver # "http" /\ pc \in {"cli_cleanup", "done"}) =>
           (result.returned /\ {"success", "correlation_id"} \subseteq result.keys)

C2_Witness == result.returned /\ trace # <<>> /\ Last(trace).outcome = "raised"

HaltingSteps ==
    {"analyze_repository", "create_plan", "implement_changes",
     "commit_changes", "push_changes"}

\* C3: whenever one of the five halting steps raises, an error record for that
\* step is appended to errors and the next node is handle_error; the run is
\* not aborted.
C3_RaisingStepGoesToHandleError ==
    \A i \in 1..Len(trace) :
        (trace[i].node \in HaltingSteps /\ trace[i].outcome \in Raising) =>
            IF i < Len(trace)
            THEN trace[i + 1].node = "handle_error"
            ELSE /\ pc = "handle_error"
                 /\ state.errors # <<>>
                 /\ Last(state.errors).node = trace[i].node

\* the fixed order, as the sequence Steps gives it
StepAfter(node) ==
    LET k == CHOOSE i \in 1..Len(Steps) : Steps[i] = node IN
    IF k < Len(Steps) THEN Steps[k + 1] ELSE END

NodeAt(p) == IF p = "implementation_loop" THEN "implement_changes" ELSE p

C4_Routing ==
    (pc \in StepNames \cup {"implementation_loop"}
        /\ pc' \notin {pc, "implementation_loop", "raised"}) =>
            pc' = IF state'.errors # <<>> THEN "handle_error" ELSE StepAfter(NodeAt(pc))

C4_PrecedingDone ==
    \A k \in 1..Len(Steps) :
        (NodeAt(pc) = Steps[k]) =>
            /\ Len(trace) >= k - 1
            /\ \A j \in 1..(k - 1) :
                   trace[Len(trace) - (k - 1) + j] = [node |-> Steps[j], outcome |-> "ok"]
            /\ Len(trace) > k - 1 => trace[Len(trace) - (k - 1)].node = "handle_error"

\* C4: the steps run in the fixed order; after a step returns, the next node
\* is handle_error iff errors is non-empty, else the next step (END after
\* create_pull_request); a step is about to run only when every preceding step
\* of the same attempt finished without error.
C4_FixedOrder == []C4_PrecedingDone /\ [][C4_Routing]_vars

C4_Witness == pc = "create_pull_request" /\ state.retry_count = 2

C5_Step ==
    (pc = "handle_error" /\ pc' # pc) =>
        /\ state'.retry_count = state.retry_count + 1
        /\ IF state'.retry_count < 3
           THEN state'.errors = <<>> /\ pc' = "analyze_repository"
           ELSE state'.errors = state.errors /\ state.errors # <<>> /\ pc' = END

\* C5: handle_error adds exactly 1 to retry_count; while the new count is
\* below 3 the errors are cleared and analyze_repository runs next, otherwise
\* the errors stay and the workflow ends, and run() reports failure.
C5_HandleError ==
    /\ [][C5_Step]_vars
    /\ []((result.returned /\ state.retry_count >= 3) => ~result.success)

C5_Witness == pc = END /\ state.retry_count = 3 /\ state.errors # <<>>

\* the last six entries of steps_completed are the six steps, in order
SixStepsCompleted ==
    LET sc == state.steps_completed IN
    Len(sc) >= Len(Steps) /\ SubSeq(sc, Len(sc) - Len(Steps) + 1, Len(sc)) = Steps

\* C6: every finished run is exactly one of success (all six steps completed
\* in the final attempt, errors empty) and failure (the 3 retries exhausted),
\* and the returned success flag says which.
C6_SuccessOrExhausted ==
    result.returned =>
        /\ result.success <=> (SixStepsCompleted /\ state.errors = <<>>)
        /\ ~result.success <=> (state.retry_count = 3 /\ state.errors # <<>>)

\* pull-request creation was the last node to run, and it failed
PullRequestFailed ==
    /\ trace # <<>>
    /\ Last(trace) = [node |-> "create_pull_request", outcome |-> "swallowed"]

\* C7: when pull-request creation fails after the five steps before it
\* succeeded, nothing is added to errors, handle_error is not entered,
\* pull_request_created is false with a non-empty pull_request_error, and
\* run() returns success = true.
C7_PullRequestFailureIsSuccess ==
    (PullRequestFailed /\ pc # "create_pull_request") =>
        /\ pc # "handle_error"
        /\ state.errors = <<>>
        /\ state.pull_request_created = "False"
        /\ state.pull_request_error \notin {None, ""}
        /\ result.returned => (result.success /\ result.errors = <<>>)

C7_Witness == PullRequestFailed /\ result.returned /\ result.success

PushRaised(i) == trace[i] = [node |-> "push_changes", outcome |-> "error"]

\* push_changes raised each time it ran and no other step raised
PushAlwaysRaises ==
    \A i \in 1..Len(trace) :
        /\ (trace[i].node = "push_changes") => (trace[i].outcome = "error")
        /\ (trace[i].outcome \in Raising) => (trace[i].node = "push_changes")

\* C8: after each failed push the workflow passes through handle_error, and a
\* run in which push_changes raises on every attempt returns success = false
\* with non-empty errors once the 3 retries are used up.
C8_PushAlwaysFailing ==
    /\ \A i \in 1..Len(trace) :
           PushRaised(i) =>
               IF i < Len(trace) THEN trace[i + 1].node = "handle_error"
               ELSE pc = "handle_error"
    /\ (result.returned /\ PushAlwaysRaises) =>
           /\ ~result.success
           /\ result.errors # <<>>
           /\ state.retry_count = 3
           /\ Cardinality({i \in 1..Len(trace) : PushRaised(i)}) = 3

C8_Witness ==
    result.returned /\ PushAlwaysRaises /\ Last(result.errors).node = "push_changes"

\* every attempt of the run ended in a step that recorded its error
EveryAttemptFails ==
    /\ trace # <<>>
    /\ \A i \in 1..Len(trace) :
           trace[i].outcome # "raised" /\ trace[i].node # "create_pull_request"

\* C9 as stated: the workflow is restarted up to 3 times, and a run whose
\* retryable step fails on every attempt is restarted 3 times before failing.
C9_RestartedThreeTimes ==
    /\ Restarts <= 3
    /\ (result.returned /\ EveryAttemptFails) => (Restarts = 3)

\* C9 amended: the workflow is restarted at most 2 times (3 attempts); a run
\* whose retryable step fails on every attempt is restarted 2 times, enters
\* handle_error 3 times and then ends in failure.
C9_RestartedTwice ==
    /\ Restarts <= 2
    /\ (result.returned /\ EveryAttemptFails) =>
           (Restarts = 2 /\ HandleErrorEntries = 3 /\ ~result.success)

C9_Witness == result.returned /\ EveryAttemptFails /\ Restarts = 2

\* C10: once the driver of a request (the HTTP background task or the CLI)
\* has finished, on any outcome, the sandbox registered for its correlation id
\* is destroyed.
C10_SandboxDestroyed ==
    (driver \in {"cli", "http"} /\ pc = "done") => ~is_sandbox_active(cid)

----------------------------------------------------------------------------
(* Properties of the sandbox registry *)

\* the running containers made for correlation id c (its name carries c)
LiveEnvironments(c) ==
    {id \in DOMAIN containers :
        containers[id].status = "running" /\ containers[id].correlation_id = c}

\* C11: at every moment at most one sandbox environment is live for a
\* correlation id, also across the retries in which analyze_repository calls
\* create_sandbox again for the same id.
C11_OneEnvironmentPerId ==
    \A c \in CorrelationIds : Cardinality(LiveEnvironments(c)) <= 1

C12_Call ==
    (cleanup_log' # cleanup_log) =>
        /\ ~Last(cleanup_log').raised
        /\ ~is_sandbox_active(cid) =>
               UNCHANGED <<active_containers, containers, temp_dirs>>

\* C12: cleanup_sandbox never raises to its caller, whether the environment
\* was never created, is already cleaned up, or the backend fails to stop or
\* remove it; a call that follows a successful cleanup changes nothing.
C12_CleanupNeverRaises ==
    /\ [](\A i \in 1..Len(cleanup_log) : ~cleanup_log[i].raised)
    /\ [][C12_Call]_vars

\* a second call found nothing because the first one removed the entry
C12_Witness ==
    /\ Len(cleanup_log) = 2
    /\ cleanup_log[1].found
    /\ ~cleanup_log[2].found

----------------------------------------------------------------------------
(* Properties of the event stream of an HTTP request *)

\* C13: for a request whose channel was opened, close_stream is invoked
\* exactly once on every path of the background task, the failure of the
\* background wrapper included.
C13_ClosedExactlyOnce ==
    /\ close_calls <= 1
    /\ (driver = "http" /\ pc = "done") => (close_calls = 1)

Terminal(event) == event.type \in {"Success", "Error"}

Data(frames) == [i \in 1..Len(frames) |-> frames[i].data]

BeforeSentinel(q) == SelectSeq(q, LAMBDA e : e # Sentinel)

IsPrefix(p, q) == Len(p) <= Len(q) /\ p = SubSeq(q, 1, Len(p))

\* C15: the typed events the consumer emitted, followed by what is still
\* queued, are the accepted items in their order: nothing is lost, duplicated
\* or reordered, with keepalive frames in between; what a stream delivered is
\* a prefix of what was accepted before the sentinel.
C15_FifoDelivery ==
    /\ (cid \in DOMAIN active_connections) =>
           (Data(TypedEvents(emitted)) \o active_connections[cid] = accepted)
    /\ IsPrefix(Data(TypedEvents(emitted)), BeforeSentinel(accepted))

C15_Witness ==
    /\ consumer = "ended"
    /\ accepted # <<>>
    /\ Last(accepted) = Sentinel
    /\ Data(TypedEvents(emitted)) = BeforeSentinel(accepted)
    /\ Keepalives(emitted) > 0

C16_Step ==
    (missing_sends' > missing_sends) =>
        /\ UNCHANGED <<active_connections, accepted, emitted, consumer>>
        /\ pc' # pc

\* C16: send_event for an id with no open channel changes no queue and not
\* the connection table, and the sender carries on.
C16_SendWithoutChannel == [][C16_Step]_vars

C16_Witness == missing_sends > 0 /\ pc = "done" /\ close_calls = 1

----------------------------------------------------------------------------
(* Properties of the tool dispatch *)

\* C17: every operation the implementation loop has SandboxService execute
\* (read_file, write_file, execute_command) is addressed to the correlation id
\* of the run that issued it and executes in the container registered for
\* that run, whatever correlation_id the capability wrote in the tool
\* arguments; with two runs under way, no operation of one executes in the
\* container of the other.
C17_OwnSandboxOnly ==
    sandbox_op # NoOp =>
        /\ sandbox_op.correlation_id = RunIds[sandbox_op.run]
        /\ sandbox_op.container = active_containers[RunIds[sandbox_op.run]].container
        /\ containers[sandbox_op.container].correlation_id = RunIds[sandbox_op.run]

C17_Witness ==
    /\ sandbox_op.run = "A"
    /\ sandbox_op.request.correlation_id = RunIds["B"]
    /\ tool_call["B"] # NoCall

\* what the file system makes of a path: empty and "." segments vanish, ".."
\* steps back to the parent
RECURSIVE resolve(_, _)
resolve(path, done) ==
    IF path = <<>> THEN done
    ELSE LET seg == Head(path) IN
         resolve(Tail(path),
                 CASE seg \in {"", "."} -> done
                   [] seg = ".." -> IF done = <<>> THEN done
                                    ELSE SubSeq(done, 1, Len(done) - 1)
                   [] OTHER -> Append(done, seg))

Inside(root, path) ==
    /\ Len(path) > Len(root)
    /\ SubSeq(path, 1, Len(root)) = root

\* C18: no write reaches the sandbox file system with a path that escapes the
\* repository root: a write_file request whose file_path contains ".." or is
\* absolute never arrives at SandboxService.write_file as it was asked.
C18_NoEscapingWrite ==
    sandbox_op.op = "write_file" =>
        /\ validate_file_path(sandbox_op.request.file_path)
        /\ Inside(resolve(RepoPath, <<>>), resolve(sandbox_op.file_path, <<>>))

----------------------------------------------------------------------------
(* Properties of the result of run and of the commit step *)

RunResultFields == {"success", "correlation_id", "final_state", "errors"}

\* C19: every result run() returns, on success and on every failure path,
\* carries all four fields success, correlation_id, final_state and errors.
C19_ResultHasFourFields ==
    result.returned => RunResultFields \subseteq result.keys

\* C20: commit_changes with nothing staged returns the sentinel "no_changes"
\* without raising and without making a commit; the commit step then records
\* commit_hash = "no_changes", adds no error record, counts as completed and
\* is followed by push_changes, not by handle_error.
C20_NothingStaged ==
    /\ commit_changes("nothing_staged") = [result |-> "no_changes", committed |-> FALSE]
    /\ [][(/\ pc = "commit_changes"
            /\ Last(trace') = [node |-> "commit_changes", outcome |-> "ok"]
            /\ state'.commit_hash = "no_changes") =>
             /\ state'.errors = state.errors
             /\ state'.steps_completed = Append(state.steps_completed, "commit_changes")
             /\ pc' = "push_changes"]_vars

C20_Witness ==
    /\ pc = "push_changes"
    /\ state.commit_hash = "no_changes"
    /\ state.errors = <<>>
    /\ Last(trace).node = "commit_changes"

----------------------------------------------------------------------------
(* Properties of execute_command *)

\* C21: execute_command returns the tuple with the exit code of the command,
\* zero or not, without raising; it raises SandboxError exactly when the
\* correlation id has no registered sandbox, or the backend is unavailable, or
\* the backend fails; and when it raises for a missing sandbox or backend,
\* nothing has run in any container.
C21_ExitCodeReturned ==
    exec_result # NoExecResult =>
        LET rejected == execute_command_rejected(exec_result.correlation_id) IN
        /\ rejected => (exec_result.raised = "SandboxError"
                         /\ exec_result.container = NoContainer)
        /\ ~rejected =>
              /\ exec_result.container =
                     active_containers[exec_result.correlation_id].container
              /\ exec_result.raised = "SandboxError" <=> exec_result.behaviour.exception
              /\ exec_result.raised = None <=> ~exec_result.behaviour.exception
              /\ exec_result.raised = None =>
                     exec_result.exit_code = exec_result.behaviour.exit_code

C21_Witness ==
    /\ exec_result.raised = None
    /\ exec_result.exit_code = 127
    /\ exec_result.container # NoContainer

\* C22: a command that has not finished when its timeout (the argument, or
\* the configured default) has elapsed is not waited for any longer.
C22_BoundedByTimeout ==
    exec_call # NoExecCall => exec_call.elapsed <= effective_timeout(exec_call.timeout)

----------------------------------------------------------------------------
(* Properties of the rate limiter *)

RECURSIVE Sum(_, _)
Sum(f, S) == IF S = {} THEN 0 ELSE LET x == CHOOSE y \in S : TRUE IN f[x] + Sum(f, S \ {x})

\* requests of client c admitted in the window of rate_limit_window seconds
\* that ends at t
AdmittedInWindow(c, t) ==
    Sum(admitted_at[c], {u \in 0..MaxTime : u <= t /\ t - u < rate_limit_window})

\* C23: check_rate_limit admits at most `limit` requests of one client within
\* any window of `window` seconds; a rejected request is not counted against
\* its client; and a request of one client changes nothing that decides about
\* another client.
C23_RateLimit ==
    /\ [](\A c \in Clients, t \in 0..MaxTime : AdmittedInWindow(c, t) <= rate_limit_requests)
    /\ [][/\ \A c \in Clients : c # rate_decision'.client => requests'[c] = requests[c]
          /\ (now' = now /\ ~rate_decision'.admitted) =>
                 requests'[rate_decision'.client] =
                     recent(requests[rate_decision'.client], now, rate_limit_window)
          /\ (now' = now /\ rate_decision'.admitted) =>
                 AdmittedInWindow(rate_decision'.client, now) < rate_limit_requests]_vars

C23_Witness ==
    /\ admitted_at["ip1"][0] = rate_limit_requests
    /\ admitted_at["ip1"][rate_limit_window] = rate_limit_requests
    /\ admitted_at["ip2"][0] > 0
    /\ rate_decision = [client |-> "ip1", admitted |-> FALSE]

----------------------------------------------------------------------------
(* Properties of the branch name *)

AllIn(text, S) == \A i \in 1..Len(text) : text[i] \in S

\* ^(feature|fix|add|update|improve)/[a-z0-9-]+-[0-9]+$
MatchesBranchPattern(name) ==
    \E prefix \in BranchPrefixes :
        /\ startswith(name, prefix)
        /\ \E k \in (Len(prefix) + 2)..(Len(name) - 1) :
              /\ name[k] = "-"
              /\ AllIn(SubSeq(name, Len(prefix) + 1, k - 1),
                       Letters \cup {"g"} \cup Digits \cup {"-"})
              /\ AllIn(SubSeq(name, k + 1, Len(name)), Digits)

\* C24: whatever text the capability returns, the branch name computed by the
\* implementation step matches
\* ^(feature|fix|add|update|improve)/[a-z0-9-]+-[0-9]+$ and has at most 100
\* characters.
C24_BranchNameWellFormed ==
    branch_name # NoText =>
        /\ MatchesBranchPattern(branch_name)
        /\ Len(branch_name) <= 100

----------------------------------------------------------------------------
(* Properties of the loop of implement_changes *)

\* C25: one execution of the implementation step invokes the capability at
\* most 10 times; the loop is left at the first round whose response has no
\* tool calls, or after the 10th round, whichever comes first; and the step
\* then completes normally.
C25_LoopEnds ==
    /\ [](/\ iteration <= max_iterations
          /\ (pc = "implementation_loop" /\ iteration > 0) =>
                 (response # <<>> /\ iteration < max_iterations)
          /\ (pc = "implementation_done") =>
                 (response = <<>> \/ iteration = max_iterations))
    /\ [][(pc = "implementation_done") =>
             /\ pc' = "commit_changes"
             /\ state'.errors = <<>>
             /\ state'.steps_completed = Append(state.steps_completed, "implement_changes")
             /\ state'.changes_made = changes_made]_vars

C25_Witness ==
    /\ pc = "commit_changes"
    /\ iteration = max_iterations
    /\ response # <<>>
    /\ Last(state.steps_completed) = "implement_changes"

\* C26: every write_file invocation executed in the loop adds one entry to
\* changes_made, a modification if the same path was read or written before
\* in this run, a creation otherwise.
C26_WritesClassified == changes_made = expected_changes

\* C27: changes_made never holds two entries with the same file_path.
C27_NoDuplicatePath ==
    \A i, j \in 1..Len(changes_made) :
        changes_made[i].file_path = changes_made[j].file_path => i = j

----------------------------------------------------------------------------
(* Properties of the accumulated state *)

\* C28: at the boundary after a step of the run, errors is non-empty if and
\* only if that step, the most recently executed one, raised an exception.
C28_ErrorsIffRaised ==
    (trace # <<>> /\ Last(trace).node \in StepNames) =>
        (state.errors # <<>> <=> Last(trace).outcome # "ok")

\* C29: steps_completed is append-only: every transition of the workflow,
\* handle_error and the restarts of the whole workflow included, leaves the
\* previous contents of steps_completed as a prefix of the new contents.
C29_StepsAppendOnly ==
    [][IsPrefix(state.steps_completed, state'.steps_completed)]_vars

C29_Witness ==
    /\ state.retry_count = 2
    /\ \E i \in 1..(Len(state.steps_completed) - 1) :
          /\ state.steps_completed[i] = "handle_error"
          /\ state.steps_completed[i + 1] = "analyze_repository"
    /\ Last(state.steps_completed) = "create_pull_request"

----------------------------------------------------------------------------
(* Properties of the consumer loop *)

HasSentinel(q) == \E i \in 1..Len(q) : q[i] = Sentinel

\* C30: the consumer loop ends normally only by dequeuing the close sentinel.
\* While it runs the channel is in the table of active connections, and while
\* no sentinel has been enqueued it does not end; once it has dequeued the
\* sentinel, everything accepted before the sentinel has been emitted,
\* nothing further is emitted and the channel is gone from the table.
C30_EndsOnSentinelOnly ==
    /\ [](/\ consumer = "running" => cid \in DOMAIN active_connections
          /\ consumer = "ended" =>
                /\ HasSentinel(accepted)
                /\ Data(TypedEvents(emitted)) = BeforeSentinel(accepted)
                /\ cid \notin DOMAIN active_connections)
    /\ [][/\ (consumer = "running" /\ consumer' = "ended") =>
                (Head(active_connections[cid]) = Sentinel /\ emitted' = emitted)
          /\ consumer = "ended" =>
                (emitted' = emitted /\ consumer' = "ended"
                 /\ cid \notin DOMAIN active_connections')]_vars

C30_Witness ==
    /\ consumer = "ended"
    /\ Len(TypedEvents(emitted)) >= 2
    /\ Keepalives(emitted) > 0
    /\ pc = "done"

----------------------------------------------------------------------------
(* C31: when create_sandbox fails inside analyze_repository (no client, or
   the backend refuses to run the container) the step raises, no later step
   of the workflow executes and the run does not report success. *)

AnalyzeRaised == [node |-> "analyze_repository", outcome |-> "raised"]

\* the analyze_repository step in which create_sandbox made its directory and
\* registered no container
CreateSandboxFailed ==
    /\ pc = "analyze_repository"
    /\ next_id' # next_id
    /\ containers' = containers

C31_SandboxFailureHalts ==
    /\ [][CreateSandboxFailed => pc' = "raised" /\ Last(trace') = AnalyzeRaised]_vars
    /\ [][pc = "raised" => /\ trace' = trace
                           /\ result'.returned
                           /\ ~result'.success]_vars
    /\ [][trace # <<>> /\ Last(trace) = AnalyzeRaised => trace' = trace]_vars

C31_Witness ==
    /\ trace = <<AnalyzeRaised>>
    /\ state.correlation_id # ""
    /\ containers = NoContainers
    /\ cleanup_log = <<>>
    /\ result.returned
    /\ ~result.success

----------------------------------------------------------------------------
(* C32: after cleanup_sandbox(correlation_id) returns, whether or not the
   backend failed to stop or remove the container, the environment is no
   longer registered for that correlation id and its temporary directory is
   gone. *)

C32_Call ==
    (cleanup_log' # cleanup_log) =>
        /\ cid \notin DOMAIN active_containers'
        /\ cid \in DOMAIN active_containers =>
               active_containers[cid].temp_dir \notin temp_dirs'

C32_CleanupAlwaysUnregisters == [][C32_Call]_vars

----------------------------------------------------------------------------
(* C33: push_changes returns normally only if the commits of the branch are
   on the remote afterwards: the push command is skipped only when there is
   nothing to push, and a non-zero exit of the push command raises
   GitError. *)

C33_ReturnsOnlyIfPushed ==
    /\ push_result.returned => repo.remote = repo.local
    /\ (push_result.push_run /\ push_result.behaviour.push = "nonzero") =>
           push_result.raised = "GitError"

----------------------------------------------------------------------------
(* C34: in the HTTP pipeline a failure of pull-request creation after a
   successful commit and push is not fatal: the stream still ends with a
   Success event and carries no Error event for it. *)

C34_Step ==
    (pc = "http_create_pull_request" /\ pc' # pc /\ cid \in DOMAIN active_connections) =>
        /\ pc' # "http_except"
        /\ Last(BeforeSentinel(accepted')).type = "Success"

----------------------------------------------------------------------------
(* Properties of the channel under a producer in another thread *)

\* the items put on the queue before the first close sentinel
RECURSIVE UpToSentinel(_)
UpToSentinel(q) ==
    IF q = <<>> \/ Head(q) = Sentinel THEN <<>>
    ELSE <<Head(q)>> \o UpToSentinel(Tail(q))

\* C35: no typed event put on the queue after the close sentinel is ever
\* emitted: what the client gets are, in order, events put before the first
\* sentinel; an event accepted after it stays in the queue and is gone when
\* the consumer removes the channel.
C35_NothingAfterSentinelEmitted ==
    IsPrefix(Data(TypedEvents(emitted)), UpToSentinel(accepted))

\* an event was accepted after the sentinel, the consumer has ended and
\* removed the channel, and the client got exactly the events before it
C35_Witness ==
    /\ consumer = "ended"
    /\ cid \notin DOMAIN active_connections
    /\ Len(accepted) = 3
    /\ accepted[2] = Sentinel
    /\ accepted[3] # Sentinel
    /\ Data(TypedEvents(emitted)) = <<accepted[1]>>

\* C36: send_event and close_stream never raise to the producer, even when
\* the consumer closes the queue or deletes the channel's entry between the
\* producer's test for the channel and its put.
C36_ProducerNeverRaised ==
    \A i \in 1..Len(producer_log) : ~producer_log[i].raised

\* one call met the closed queue and another the deleted entry, both after
\* they had found the channel
C36_Witness ==
    /\ \E i \in 1..Len(producer_log) : producer_log[i].outcome = "RuntimeError"
    /\ \E i \in 1..Len(producer_log) : producer_log[i].outcome = "KeyError"
    /\ \E i \in 1..Len(producer_log) :
           producer_log[i].item = Sentinel /\ producer_log[i].outcome # "enqueued"

----------------------------------------------------------------------------
(* C37: inside the implementation loop an exception of a tool invocation is
   caught: the round ends as any other (the loop goes on or is left, the step
   is not aborted), no record is added to errors, and a write_file call that
   raised adds no entry to changes_made. *)

FailedCalls(calls) == {i \in 1..Len(calls) : ~calls[i].ok}

OkWrites(calls) == {i \in 1..Len(calls) : calls[i].name = "write_file" /\ calls[i].ok}

\* a round whose response holds a tool call that raised
C37_Round ==
    (pc = "implementation_loop" /\ response' # response /\ FailedCalls(response') # {}) =>
        /\ pc' = IF iteration' < max_iterations THEN "implementation_loop"
                                                ELSE "implementation_done"
        /\ trace' = trace
        /\ state'.errors = state.errors
        /\ Len(changes_made') = Len(changes_made) + Cardinality(OkWrites(response'))

C37_ToolFailureIsCaught ==
    /\ [][C37_Round]_vars
    /\ [][pc = "implementation_done" =>
             /\ state'.errors = <<>>
             /\ Last(trace') = [node |-> "implement_changes", outcome |-> "ok"]
             /\ state'.changes_made = changes_made]_vars

\* the step was completed after a round whose write_file call raised, with
\* nothing recorded
C37_Witness ==
    /\ pc = "commit_changes"
    /\ Len(response) = 1
    /\ response[1].name = "write_file"
    /\ ~response[1].ok
    /\ state.changes_made = <<>>
    /\ state.errors = <<>>
    /\ Last(state.steps_completed) = "implement_changes"

----------------------------------------------------------------------------
(* C38: after a successful cleanup_sandbox(correlation_id), every
   execute_command, read_file and write_file call for that id raises
   SandboxError and runs nothing in any container, until create_sandbox is
   called again for the id. *)

C38_Call ==
    (sandbox_call'.seq # sandbox_call.seq /\ sandbox_call'.correlation_id \in cleaned) =>
        /\ sandbox_call'.raised = "SandboxError"
        /\ sandbox_call'.container = NoContainer

C38_RejectedAfterCleanup ==
    /\ [](\A c \in cleaned : ~is_sandbox_active(c))
    /\ [][C38_Call]_vars

\* a write_file call for a cleaned-up id was rejected while the sandbox of the
\* other id was registered
C38_Witness ==
    /\ sandbox_call.op = "write_file"
    /\ sandbox_call.correlation_id \in cleaned
    /\ sandbox_call.raised = "SandboxError"
    /\ active_containers # NoContainers

====
